---- MODULE Spec2Model ----
(***************************************************************************)
(* Model of the schema normalizer (src/schema/normalizer.ts).              *)
(*                                                                         *)
(* JSON-like values are tagged records.  An object is an ordered sequence  *)
(* of <<key, value>> entries (JavaScript keeps insertion order).  An       *)
(* object reached through the input arena `heap` has the identity of its   *)
(* index (ObjRef); an object literal (Lit) is a fresh object that occurs   *)
(* at exactly one place, as the nodes built by the normalizer do.          *)
(***************************************************************************)
EXTENDS Integers, Sequences, FiniteSets, TLC

VARIABLES heap, input, options, phase, out, out2,
          pendingCalls, inflight, reply, received

vars == <<heap, input, options, phase, out, out2,
          pendingCalls, inflight, reply, received>>

\* The state of the proxy (src/deno_index.ts): the pendingCalls map of the
\* ToolCallProcessor, the requests whose body is being read, the last reply
\* and the number of requests received.
proxy == <<pendingCalls, inflight, reply, received>>

(***************************************************************************)
(* Values                                                                  *)
(***************************************************************************)
Undef == [k |-> "undef"]
Null == [k |-> "null"]
Bool(b) == [k |-> "bool", b |-> b]
Num(n) == [k |-> "num", n |-> n]
Str(s) == [k |-> "str", s |-> s]
Arr(a) == [k |-> "arr", a |-> a]
ObjRef(id) == [k |-> "obj", id |-> id]
Lit(e) == [k |-> "lit", e |-> e]

IsUndef(v) == v.k = "undef"
IsString(v) == v.k = "str"
IsNumber(v) == v.k = "num"
IsBoolean(v) == v.k = "bool"
IsArray(v) == v.k = "arr"
IsTrue(v) == v.k = "bool" /\ v.b

\* JavaScript truthiness (Boolean(value)).
Truthy(v) ==
  CASE v.k = "undef" -> FALSE
    [] v.k = "null" -> FALSE
    [] v.k = "bool" -> v.b
    [] v.k = "num" -> v.n # 0
    [] v.k = "str" -> v.s # ""
    [] OTHER -> TRUE

\* Boolean(value) && typeof value === "object" && !Array.isArray(value)
isPlainObject(v) == v.k \in {"obj", "lit"}

\* The typeof operator.
TypeOf(v) ==
  CASE v.k = "undef" -> "undefined"
    [] v.k = "bool" -> "boolean"
    [] v.k = "num" -> "number"
    [] v.k = "str" -> "string"
    [] v.k = "bigint" -> "bigint"
    [] OTHER -> "object"

\* SameValueZero, the equality of Set.has: primitives by value, objects and
\* arrays by identity (a literal is identical only to itself).
SameValue(a, b) == a.k = b.k /\ a = b

\* The entries of an object value: Object.entries(v).
Entries(h, v) == IF v.k = "obj" THEN h[v.id] ELSE v.e

Keys(obj) == [i \in 1..Len(obj) |-> obj[i][1]]

Has(obj, key) == \E i \in 1..Len(obj) : obj[i][1] = key

\* obj[key], undefined when the key is absent.
Get(obj, key) ==
  IF Has(obj, key)
    THEN obj[CHOOSE i \in 1..Len(obj) : obj[i][1] = key][2]
    ELSE Undef

\* obj[key] = val: an existing key keeps its place, a new one is appended.
Put(obj, key, val) ==
  IF Has(obj, key)
    THEN [i \in 1..Len(obj) |-> IF obj[i][1] = key THEN <<key, val>> ELSE obj[i]]
    ELSE Append(obj, <<key, val>>)

\* key in obj: own keys and the keys every object inherits from Object.prototype.
ObjectPrototypeKeys ==
  {"constructor", "hasOwnProperty", "isPrototypeOf", "propertyIsEnumerable",
   "toLocaleString", "toString", "valueOf", "__proto__"}

InObject(obj, key) == Has(obj, key) \/ key \in ObjectPrototypeKeys

\* The statements of a block in program order: the steps are evaluated first
\* to last, and the value of the block is that of its last step.
InOrder(steps) == steps[Len(steps)]

\* delete obj[key]
Del(obj, key) == SelectSeq(obj, LAMBDA e : e[1] # key)

(***************************************************************************)
(* Strings                                                                 *)
(***************************************************************************)
Whitespace == {" ", "\t", "\n"}
Lower == {"a", "b", "c", "d", "e", "f", "g", "h", "i", "j", "k", "l", "m",
          "n", "o", "p", "q", "r", "s", "t", "u", "v", "w", "x", "y", "z"}
Upper == {"A", "B", "C", "D", "E", "F", "G", "H", "I", "J", "K", "L", "M",
          "N", "O", "P", "Q", "R", "S", "T", "U", "V", "W", "X", "Y", "Z"}
Digits == {"0", "1", "2", "3", "4", "5", "6", "7", "8", "9"}

Char(s, i) == SubSeq(s, i, i)

ToUpperCase(c) ==
  CASE c = "a" -> "A" [] c = "b" -> "B" [] c = "c" -> "C" [] c = "d" -> "D"
    [] c = "e" -> "E" [] c = "f" -> "F" [] c = "g" -> "G" [] c = "h" -> "H"
    [] c = "i" -> "I" [] c = "j" -> "J" [] c = "k" -> "K" [] c = "l" -> "L"
    [] c = "m" -> "M" [] c = "n" -> "N" [] c = "o" -> "O" [] c = "p" -> "P"
    [] c = "q" -> "Q" [] c = "r" -> "R" [] c = "s" -> "S" [] c = "t" -> "T"
    [] c = "u" -> "U" [] c = "v" -> "V" [] c = "w" -> "W" [] c = "x" -> "X"
    [] c = "y" -> "Y" [] c = "z" -> "Z" [] OTHER -> c

RECURSIVE TrimStart(_)
TrimStart(s) ==
  IF Len(s) > 0 /\ Char(s, 1) \in Whitespace
    THEN TrimStart(SubSeq(s, 2, Len(s)))
    ELSE s

RECURSIVE TrimEnd(_)
TrimEnd(s) ==
  IF Len(s) > 0 /\ Char(s, Len(s)) \in Whitespace
    THEN TrimEnd(SubSeq(s, 1, Len(s) - 1))
    ELSE s

\* String.prototype.trim
Trim(s) == TrimEnd(TrimStart(s))

DigitStr(d) == Char("0123456789", d + 1)

RECURSIVE NatStr(_)
NatStr(n) == IF n < 10 THEN DigitStr(n) ELSE NatStr(n \div 10) \o DigitStr(n % 10)

\* String(n) for an integer n.
NumStr(n) == IF n < 0 THEN "-" \o NatStr(-n) ELSE NatStr(n)

\* Array.prototype.join over a sequence of strings.
RECURSIVE JoinStrings(_, _)
JoinStrings(parts, sep) ==
  IF Len(parts) = 0 THEN ""
  ELSE IF Len(parts) = 1 THEN parts[1]
  ELSE parts[1] \o sep \o JoinStrings(Tail(parts), sep)

\* String(value), as template literals and Array.prototype.join convert
\* an element; join turns null and undefined into the empty string.
RECURSIVE StringOf(_, _)
StringOf(v, inJoin) ==
  CASE v.k = "str" -> v.s
    [] v.k = "num" -> NumStr(v.n)
    [] v.k = "bool" -> IF v.b THEN "true" ELSE "false"
    [] v.k = "null" -> IF inJoin THEN "" ELSE "null"
    [] v.k = "undef" -> IF inJoin THEN "" ELSE "undefined"
    [] v.k = "arr" ->
         JoinStrings([i \in 1..Len(v.a) |-> StringOf(v.a[i], TRUE)], ",")
    [] OTHER -> "[object Object]"

\* JSON.stringify(value) of a value that holds no cycle.
RECURSIVE JsonStringify(_, _)
JsonStringify(h, v) ==
  CASE v.k = "str" -> "\"" \o v.s \o "\""
    [] v.k = "num" -> NumStr(v.n)
    [] v.k = "bool" -> IF v.b THEN "true" ELSE "false"
    [] v.k = "null" -> "null"
    [] v.k = "undef" -> "null"
    [] v.k = "arr" ->
         "[" \o JoinStrings([i \in 1..Len(v.a) |-> JsonStringify(h, v.a[i])], ",")
             \o "]"
    [] OTHER ->
         LET es == SelectSeq(Entries(h, v), LAMBDA e : ~IsUndef(e[2]))
         IN "{" \o JoinStrings(
                     [i \in 1..Len(es) |->
                        "\"" \o es[i][1] \o "\":" \o JsonStringify(h, es[i][2])],
                     ",")
                \o "}"

(***************************************************************************)
(* Configuration and vocabulary                                            *)
(***************************************************************************)
DefaultMaxDepth == 12

DEFAULT_CONFIG ==
  [maxDepth |-> DefaultMaxDepth, generateDescriptions |-> TRUE, inferRequired |-> TRUE]

UNSUPPORTED_KEYWORDS ==
  {"$schema", "$id", "$comment", "readOnly", "writeOnly", "deprecated",
   "contentMediaType", "contentEncoding", "if", "then", "else", "not"}

VALID_TYPES == {"null", "boolean", "object", "array", "number", "string", "integer"}

\* A guard that substitutes {} for the node it rejects.
EmptyFallback == <<>>

\* The node every guard substitutes: { type: "object" }.
Fallback == <<<<"type", Str("object")>>>>

(***************************************************************************)
(* Context and diagnostics.  `st` is the state one top-level call shares   *)
(* by reference: the seen set and the two diagnostic lists.  `admitted`    *)
(* logs the depth of every node that passed the guards (seen.add).         *)
(***************************************************************************)
RootContext(opts) == [path |-> <<>>, depth |-> 0, options |-> opts, hint |-> Undef]

FreshState ==
  [seen |-> {}, errors |-> <<>>, warnings |-> <<>>, admitted |-> <<>>, written |-> {}]

childContext(context, segment, hint) ==
  [path |-> Append(context.path, segment),
   depth |-> context.depth + 1,
   options |-> context.options,
   hint |-> hint]

pathToString(path) == IF Len(path) > 0 THEN JoinStrings(path, ".") ELSE "root"

\* A sink that records every diagnostic twice.
PushErrorTwice(st, type, message, path) ==
  [st EXCEPT !.errors = @ \o <<[type |-> type, message |-> message, path |-> path],
                             [type |-> type, message |-> message, path |-> path]>>]

\* context.errors.push({ type, message, path })
PushError(st, type, message, path) ==
  [st EXCEPT !.errors = Append(@, [type |-> type, message |-> message, path |-> path])]

PushWarning(st, warning) == [st EXCEPT !.warnings = Append(@, warning)]

\* An assignment to a key of an object, or its deletion (value undefined).
\* Only a write to an object of the arena can be seen by the caller; it is
\* kept in `written`.  A new object is no object of the arena.
NewObject == Undef

Write(object, key, value) ==
  IF object.k = "obj" THEN {[id |-> object.id, key |-> key, value |-> value]} ELSE {}

\* The arena after the writes of a call.
WrittenObject(obj, writes) ==
  IF writes = {} THEN obj
  ELSE LET keys == {w.key : w \in writes}
           value(key) == (CHOOSE w \in writes : w.key = key).value
           assigned == [k \in 1..Len(obj) |->
                          IF obj[k][1] \in keys
                            THEN <<obj[k][1], value(obj[k][1])>> ELSE obj[k]]
       IN SelectSeq(assigned, LAMBDA e : ~IsUndef(e[2]))

Written(h, writes) ==
  [id \in DOMAIN h |-> WrittenObject(h[id], {w \in writes : w.id = id})]

\* values.filter(...) then dedupe(values): first occurrences, in order.
RECURSIVE dedupe(_)
dedupe(values) ==
  IF Len(values) = 0 THEN <<>>
  ELSE LET init == dedupe(SubSeq(values, 1, Len(values) - 1))
           last == values[Len(values)]
       IN IF \E i \in 1..Len(init) : SameValue(init[i], last)
            THEN init
            ELSE Append(init, last)

typeIncludes(typeValue, candidate) ==
  CASE typeValue.k = "str" -> typeValue.s = candidate
    [] typeValue.k = "arr" ->
         \E i \in 1..Len(typeValue.a) : SameValue(typeValue.a[i], Str(candidate))
    [] OTHER -> FALSE

mapPrimitiveType(typeName) ==
  CASE typeName = "string" -> "string"
    [] typeName = "boolean" -> "boolean"
    [] typeName = "number" -> "number"
    [] typeName = "bigint" -> "integer"
    [] typeName = "object" -> "object"
    [] typeName = "null" -> "null"
    [] OTHER -> "object"

IsUnsupportedKeyword(key) == key \in UNSUPPORTED_KEYWORDS

\* One iteration of the loop over Object.entries(schema).
cleanEntry(key, value, context, init) ==
  IF InOrder(<<init, IsUnsupportedKeyword(key)>>)
    THEN [cleaned |-> init.cleaned,
          st |-> PushWarning(init.st,
                   "Removed unsupported keyword '" \o key \o "' at "
                     \o pathToString(context.path))]
    ELSE [cleaned |-> Put(init.cleaned, key, value), st |-> init.st]

RECURSIVE cleanUnsupportedKeywords(_, _, _)
cleanUnsupportedKeywords(schema, context, st) ==
  IF Len(schema) = 0 THEN [cleaned |-> <<>>, st |-> st]
  ELSE cleanEntry(schema[Len(schema)][1], schema[Len(schema)][2], context,
                  cleanUnsupportedKeywords(SubSeq(schema, 1, Len(schema) - 1),
                                           context, st))

\* A type filter that lets every array member through.
AnyTypeEntry(entry) == TRUE

IsValidTypeEntry(entry) == IsString(entry) /\ entry.s \in VALID_TYPES

normalizeType(value, context, st) ==
  CASE IsUndef(value) -> [type |-> Undef, st |-> st]
    [] IsString(value) ->
         IF value.s \in VALID_TYPES
           THEN [type |-> value, st |-> st]
           ELSE [type |-> Undef,
                 st |-> PushError(st, "validation_error",
                                  "Unsupported type '" \o value.s \o "'",
                                  pathToString(context.path))]
    [] IsArray(value) ->
         LET collected == dedupe(SelectSeq(value.a, IsValidTypeEntry))
         IN [type |-> IF Len(collected) = 0 THEN Undef
                      ELSE IF Len(collected) = 1 THEN collected[1]
                      ELSE Arr(collected),
             st |-> st]
    [] OTHER ->
         [type |-> Undef,
          st |-> PushWarning(st, "Discarded non-string type value at "
                                   \o pathToString(context.path))]

\* The type names of the enum members, in first-occurrence order (a Set).
EnumTypeOf(entry) ==
  Str(IF entry.k = "null" THEN "null" ELSE mapPrimitiveType(TypeOf(entry)))

inferType(schema) ==
  LET defined(key) == ~IsUndef(Get(schema, key))
      enum == Get(schema, "enum")
      const == Get(schema, "const")
      default == Get(schema, "default")
  IN
  IF \/ isPlainObject(Get(schema, "properties"))
     \/ isPlainObject(Get(schema, "patternProperties"))
     \/ defined("additionalProperties")
    THEN Str("object")
  ELSE IF defined("items") THEN Str("array")
  ELSE IF IsArray(enum) /\ Len(enum.a) > 0 THEN
    LET members == SelectSeq(enum.a, LAMBDA e : ~IsUndef(e))
        typeArray == dedupe([i \in 1..Len(members) |-> EnumTypeOf(members[i])])
    IN IF Len(typeArray) = 1 THEN typeArray[1] ELSE Arr(typeArray)
  ELSE IF defined("const") THEN
    IF const.k = "null" THEN Str("null") ELSE Str(mapPrimitiveType(TypeOf(const)))
  ELSE IF defined("pattern") \/ defined("format") \/ defined("minLength")
          \/ defined("maxLength")
    THEN Str("string")
  ELSE IF defined("minimum") \/ defined("maximum") \/ defined("exclusiveMinimum")
          \/ defined("exclusiveMaximum") \/ defined("multipleOf")
    THEN Str("number")
  ELSE IF IsUndef(Get(schema, "type")) /\ defined("default") THEN
    IF default.k = "null" THEN Str("null") ELSE Str(mapPrimitiveType(TypeOf(default)))
  ELSE Undef

\* The nullable flag applied without looking at what the type already holds.
applyNullableUnchecked(nullable, resolvedType) ==
  IF nullable /\ ~IsUndef(resolvedType)
    THEN IF IsArray(resolvedType)
           THEN Arr(Append(resolvedType.a, Str("null")))
           ELSE Arr(<<resolvedType, Str("null")>>)
    ELSE resolvedType

\* Lines 388-396: the nullable flag unions "null" into the resolved type.
applyNullable(nullable, resolvedType) ==
  IF nullable /\ ~IsUndef(resolvedType)
    THEN IF IsString(resolvedType)
           THEN IF resolvedType.s = "null" THEN Str("null")
                ELSE Arr(<<resolvedType, Str("null")>>)
         ELSE IF IsArray(resolvedType)
           THEN IF ~typeIncludes(resolvedType, "null")
                  THEN Arr(Append(resolvedType.a, Str("null")))
                  ELSE resolvedType
         ELSE resolvedType
    ELSE resolvedType

copyNumericConstraint(source, target, key) ==
  IF IsNumber(Get(source, key)) THEN Put(target, key, Get(source, key)) ELSE target

copyIfString(source, target, key) ==
  IF IsString(Get(source, key)) THEN Put(target, key, Get(source, key)) ELSE target

assignStringConstraints(cleaned, result) ==
  LET isStringType == typeIncludes(Get(result, "type"), "string")
  IN IF ~isStringType /\ IsUndef(Get(cleaned, "pattern"))
        /\ IsUndef(Get(cleaned, "format"))
       THEN result
       ELSE copyNumericConstraint(cleaned,
              copyNumericConstraint(cleaned,
                copyIfString(cleaned, copyIfString(cleaned, result, "pattern"), "format"),
                "minLength"),
              "maxLength")

assignNumericConstraints(cleaned, result) ==
  LET isNumeric == \/ typeIncludes(Get(result, "type"), "number")
                   \/ typeIncludes(Get(result, "type"), "integer")
  IN IF ~isNumeric /\ IsUndef(Get(cleaned, "minimum"))
        /\ IsUndef(Get(cleaned, "maximum")) /\ IsUndef(Get(cleaned, "multipleOf"))
       THEN result
       ELSE copyNumericConstraint(cleaned,
              copyNumericConstraint(cleaned,
                copyNumericConstraint(cleaned,
                  copyNumericConstraint(cleaned,
                    copyNumericConstraint(cleaned, result, "minimum"),
                    "maximum"),
                  "exclusiveMinimum"),
                "exclusiveMaximum"),
              "multipleOf")

(***************************************************************************)
(* Description generation                                                  *)
(***************************************************************************)
\* replace(/([a-z0-9])([A-Z])/g, "$1 $2")
RECURSIVE SplitCamel(_)
SplitCamel(s) ==
  IF Len(s) < 2 THEN s
  ELSE IF Char(s, 1) \in (Lower \cup Digits) /\ Char(s, 2) \in Upper
    THEN Char(s, 1) \o " " \o Char(s, 2) \o SplitCamel(SubSeq(s, 3, Len(s)))
    ELSE Char(s, 1) \o SplitCamel(SubSeq(s, 2, Len(s)))

\* replace(/[chars]+/g, " "): every maximal run of `chars` becomes one space.
RECURSIVE ReplaceRuns(_, _)
ReplaceRuns(s, chars) ==
  IF Len(s) = 0 THEN s
  ELSE IF Char(s, 1) \in chars
    THEN IF Len(s) > 1 /\ Char(s, 2) \in chars
           THEN ReplaceRuns(SubSeq(s, 2, Len(s)), chars)
           ELSE " " \o ReplaceRuns(SubSeq(s, 2, Len(s)), chars)
    ELSE Char(s, 1) \o ReplaceRuns(SubSeq(s, 2, Len(s)), chars)

\* replace(/^./, (char) => char.toUpperCase())
Capitalize(s) ==
  IF Len(s) = 0 \/ Char(s, 1) = "\n" THEN s
  ELSE ToUpperCase(Char(s, 1)) \o SubSeq(s, 2, Len(s))

humanizeName(name) ==
  Capitalize(Trim(ReplaceRuns(ReplaceRuns(SplitCamel(name), {"_", "-"}), Whitespace)))

generateFunctionDescription(name) == "Execute " \o humanizeName(name) \o "."

\* types.join(" or "), schema.enum.join(", ")
JoinValues(values, sep) ==
  JoinStrings([i \in 1..Len(values) |-> StringOf(values[i], TRUE)], sep)

\* Lines 313-342: the sentence built around the humanised name.
describe(h, humanised, types, schema) ==
  IF Truthy(Get(schema, "enum")) /\ IsArray(Get(schema, "enum"))
     /\ Len(Get(schema, "enum").a) > 0
    THEN humanised \o ". Allowed values: " \o JoinValues(Get(schema, "enum").a, ", ")
           \o "."
  ELSE IF ~IsUndef(Get(schema, "const"))
    THEN humanised \o ". Must equal " \o JsonStringify(h, Get(schema, "const")) \o "."
  ELSE IF Truthy(Get(schema, "format")) /\ IsString(Get(schema, "format"))
    THEN humanised \o " in " \o Get(schema, "format").s \o " format."
  ELSE IF Truthy(Get(schema, "pattern")) /\ IsString(Get(schema, "pattern"))
    THEN humanised \o " matching pattern " \o Get(schema, "pattern").s \o "."
  ELSE IF (\E i \in 1..Len(types) : SameValue(types[i], Str("array")))
          /\ Truthy(Get(schema, "items")) /\ isPlainObject(Get(schema, "items"))
    THEN LET itemsType == Get(Entries(h, Get(schema, "items")), "type")
         IN "Array of "
              \o humanizeName(IF Truthy(itemsType)
                                THEN IF IsArray(itemsType)
                                       THEN JoinValues(itemsType.a, " or ")
                                       ELSE StringOf(itemsType, FALSE)
                                ELSE "items")
              \o " for " \o humanised \o "."
  ELSE IF Len(types) > 0
    THEN humanised \o " (" \o JoinValues(types, " or ") \o ")."
  ELSE humanised \o "."

generateDescription(h, name, schema) ==
  describe(h,
           humanizeName(IF Truthy(Get(schema, "title")) /\ IsString(Get(schema, "title"))
                          THEN Get(schema, "title").s ELSE name),
           IF IsArray(Get(schema, "type")) THEN Get(schema, "type").a
           ELSE IF Truthy(Get(schema, "type")) THEN <<Get(schema, "type")>> ELSE <<>>,
           schema)

\* A normalizer that never writes a description of its own.
ensureNoDescription(h, schema, context) == schema

ensureDescription(h, schema, context) ==
  IF ~context.options.generateDescriptions THEN schema
  ELSE
    LET description == IF IsString(Get(schema, "description"))
                         THEN Trim(Get(schema, "description").s)
                         ELSE ""
        hint == IF ~IsUndef(context.hint) THEN context.hint
                ELSE IF Get(schema, "title").k \notin {"undef", "null"}
                  THEN Get(schema, "title")
                ELSE IF Len(context.path) > 0
                  THEN Str(context.path[Len(context.path)])
                ELSE Undef
    IN IF description # "" THEN Put(schema, "description", Str(description))
       ELSE IF ~Truthy(hint) THEN schema
       ELSE Put(schema, "description", Str(generateDescription(h, hint.s, schema)))

(***************************************************************************)
(* Required-list reconciliation                                            *)
(***************************************************************************)
\* normalizeRequiredList: `properties` is result.properties (or undefined).
RECURSIVE filterRequired(_, _, _, _)
filterRequired(required, properties, context, st) ==
  IF Len(required) = 0 THEN [valid |-> <<>>, st |-> st]
  ELSE LET init == filterRequired(SubSeq(required, 1, Len(required) - 1),
                                  properties, context, st)
           entry == required[Len(required)]
       IN IF InOrder(<<init, ~IsString(entry)>>)
            THEN [valid |-> init.valid,
                  st |-> PushWarning(init.st,
                           "Ignored non-string required entry at "
                             \o pathToString(context.path) \o ": "
                             \o StringOf(entry, FALSE))]
          ELSE IF Truthy(properties) /\ ~InObject(properties.e, entry.s)
            THEN [valid |-> init.valid,
                  st |-> PushWarning(init.st,
                           "Removed unknown required key '" \o entry.s \o "' at "
                             \o pathToString(context.path))]
          ELSE [valid |-> Append(init.valid, entry), st |-> init.st]

\* A normalizeRequiredList that keeps the declared list as it was given.
keepRequiredList(required, properties, context, st) ==
  [required |-> required, st |-> st]

normalizeRequiredList(required, properties, context, st) ==
  IF IsUndef(required) THEN [required |-> Undef, st |-> st]
  ELSE IF ~IsArray(required)
    THEN [required |-> Undef,
          st |-> PushWarning(st, "Discarded invalid required list at "
                                   \o pathToString(context.path))]
  ELSE LET f == filterRequired(required.a, properties, context, st)
       IN InOrder(<<f,
                    [required |-> IF Len(f.valid) > 0 THEN Arr(dedupe(f.valid))
                                  ELSE Undef,
                     st |-> f.st]>>)

\* An inference that takes every typed property as required.
IsInferredRequiredAnyType(schema) == Truthy(Get(schema, "type"))

\* One property of inferRequiredFromProperties: is `schema` inferred required?
IsInferredRequired(schema) ==
  LET types == Get(schema, "type")
      typeList == IF IsArray(types) THEN types.a
                  ELSE IF Truthy(types) THEN <<types>> ELSE <<>>
      nullable == \E i \in 1..Len(typeList) : SameValue(typeList[i], Str("null"))
      optional == IsTrue(Get(schema, "optional"))
  IN IF ~IsUndef(Get(schema, "default")) \/ optional \/ nullable
       THEN FALSE
       ELSE Len(typeList) = 1 /\ ~SameValue(typeList[1], Str("null"))

inferRequiredFromProperties(properties) ==
  LET kept == SelectSeq(properties,
                LAMBDA e : isPlainObject(e[2]) /\ IsInferredRequired(e[2].e))
  IN [i \in 1..Len(kept) |-> Str(kept[i][1])]

(***************************************************************************)
(* The recursive normalizer                                                *)
(***************************************************************************)
RECURSIVE normalizeNode(_, _, _, _)

\* A depth guard that lets the node at depth maxDepth through.
DepthExceededStrict(context) == context.depth > context.options.maxDepth

\* A depth guard that never fires.
DepthNeverExceeded(context) == FALSE

\* A cycle guard that never fires.
seenHasNothing(st, schema) == FALSE

\* Line 358: the depth guard.
DepthExceeded(context) == context.depth >= context.options.maxDepth

\* A cycle guard that takes a node for visited when a visited node has the
\* same contents.
seenHasEqualContents(st, schema) ==
  schema.k = "obj" /\ \E id \in st.seen : heap[id] = heap[schema.id]

\* Line 367: context.seen.has(schema).  A literal occurs at one place only,
\* so it is never found in the set.
seenHas(st, schema) == schema.k = "obj" /\ schema.id \in st.seen

\* Line 376: context.seen.add(schema); nothing ever removes an element.
seenAdd(st, schema, context) ==
  [st EXCEPT !.seen = IF schema.k = "obj" THEN @ \cup {schema.id} ELSE @,
             !.admitted = Append(@, context.depth)]

\* The record the assign* steps hand on: the result object built so far and
\* the threaded state.
Built(result, st) == [result |-> result, st |-> st]

\* cleaned.items.map((item, index) => normalizeNode(item, childContext(...)))
RECURSIVE normalizeItems(_, _, _, _)
normalizeItems(h, items, context, st) ==
  IF Len(items) = 0 THEN Built(<<>>, st)
  ELSE LET init == normalizeItems(h, SubSeq(items, 1, Len(items) - 1), context, st)
           r == normalizeNode(h, items[Len(items)],
                  childContext(context,
                               "items[" \o NumStr(Len(items) - 1) \o "]", Undef),
                  init.st)
       IN InOrder(<<init, r, Built(Append(init.result, Lit(r.node)), r.st)>>)

\* result[key] = normalizeNode(value, childContext(context, segment, hint))
assignChild(h, key, value, segment, hint, context, result, st) ==
  LET r == normalizeNode(h, value, childContext(context, segment, hint), st)
  IN InOrder(<<r, Built(Put(result, key, Lit(r.node)), r.st)>>)

\* Lines 459-476: result.items.
assignItems(h, items, result, context, st) ==
  IF ~IsUndef(items)
    THEN IF IsArray(items)
           THEN LET m == normalizeItems(h, items.a, context, st)
                IN InOrder(<<m, Built(Put(result, "items", Arr(m.result)), m.st)>>)
           ELSE assignChild(h, "items", items, "items", Undef, context, result, st)
  ELSE IF typeIncludes(Get(result, "type"), "array") /\ IsUndef(Get(result, "items"))
    THEN Built(Put(result, "items", Lit(Fallback)), st)
  ELSE Built(result, st)

\* Lines 478-483: minItems, maxItems and uniqueItems.
copyArrayKeywords(cleaned, result) ==
  LET b == copyNumericConstraint(cleaned,
             copyNumericConstraint(cleaned, result, "minItems"), "maxItems")
  IN IF IsBoolean(Get(cleaned, "uniqueItems"))
       THEN Put(b, "uniqueItems", Get(cleaned, "uniqueItems"))
       ELSE b

\* Lines 478-489, after result.items is settled in `a`.
assignContains(h, cleaned, context, a) ==
  IF ~IsUndef(Get(cleaned, "contains"))
    THEN assignChild(h, "contains", Get(cleaned, "contains"), "contains", Undef,
                     context, copyArrayKeywords(cleaned, a.result), a.st)
    ELSE Built(copyArrayKeywords(cleaned, a.result), a.st)

assignArrayConstraints(h, cleaned, result, context, st) ==
  IF /\ ~typeIncludes(Get(result, "type"), "array")
     /\ IsUndef(Get(cleaned, "items"))
     /\ IsUndef(Get(cleaned, "minItems"))
     /\ IsUndef(Get(cleaned, "maxItems"))
    THEN Built(result, st)
    ELSE LET a == assignItems(h, Get(cleaned, "items"), result, context, st)
         IN InOrder(<<a, assignContains(h, cleaned, context, a)>>)

\* The loops over Object.entries(cleaned.properties) and
\* Object.entries(cleaned.patternProperties).
RECURSIVE normalizeEntries(_, _, _, _, _)
normalizeEntries(h, entries, isPattern, context, st) ==
  IF Len(entries) = 0 THEN Built(<<>>, st)
  ELSE LET init == normalizeEntries(h, SubSeq(entries, 1, Len(entries) - 1),
                                    isPattern, context, st)
           key == entries[Len(entries)][1]
           r == normalizeNode(h, entries[Len(entries)][2],
                  childContext(context,
                    IF isPattern THEN "patternProperties[" \o key \o "]" ELSE key,
                    Str(key)),
                  init.st)
       IN InOrder(<<init, r, Built(Put(init.result, key, Lit(r.node)), r.st)>>)

\* Lines 511-529 and 531-552: cleaned.properties / cleaned.patternProperties.
assignMap(h, keyword, map, isPattern, context, a) ==
  IF IsUndef(map) THEN a
  ELSE IF ~isPlainObject(map)
    THEN Built(a.result,
               PushError(a.st, "invalid_schema", keyword \o " must be an object",
                         pathToString(Append(context.path, keyword))))
  ELSE LET m == normalizeEntries(h, Entries(h, map), isPattern, context, a.st)
       IN InOrder(<<m, Built(Put(a.result, keyword, Lit(m.result)), m.st)>>)

\* Lines 554-563: cleaned.additionalProperties.
assignAdditionalProperties(h, additionalProperties, context, b) ==
  IF IsBoolean(additionalProperties)
    THEN Built(Put(b.result, "additionalProperties", additionalProperties), b.st)
  ELSE IF isPlainObject(additionalProperties)
    THEN assignChild(h, "additionalProperties", additionalProperties,
                     "additionalProperties", Undef, context, b.result, b.st)
  ELSE b

\* Lines 568-586: the declared list when it keeps an entry, else the
\* inferred one.
reconcileRequired(declared, result, context) ==
  IF Truthy(declared) /\ Len(declared.a) > 0
    THEN Put(result, "required", declared)
  ELSE IF context.options.inferRequired /\ Truthy(Get(result, "properties"))
          /\ Len(Get(result, "properties").e) > 0
    THEN LET inferred == inferRequiredFromProperties(Get(result, "properties").e)
         IN IF Len(inferred) > 0
              THEN Put(result, "required", Arr(inferred))
              ELSE result
  ELSE result

\* Lines 568-586, on the result `d` that holds the normalized properties.
assignRequiredTo(cleaned, context, d, st) ==
  LET required == normalizeRequiredList(Get(cleaned, "required"),
                                        Get(d, "properties"), context, st)
  IN InOrder(<<required,
               Built(reconcileRequired(required.required, d, context), required.st)>>)

\* Lines 565-586: minProperties, maxProperties and the required list.
assignRequired(cleaned, context, c) ==
  assignRequiredTo(cleaned, context,
    copyNumericConstraint(cleaned,
      copyNumericConstraint(cleaned, c.result, "minProperties"), "maxProperties"),
    c.st)

assignObjectConstraints(h, cleaned, result, context, st) ==
  IF /\ ~(typeIncludes(Get(result, "type"), "object") \/ ~Truthy(Get(result, "type")))
     /\ IsUndef(Get(cleaned, "properties"))
    THEN Built(result,
               IF ~IsUndef(Get(cleaned, "required"))
                 THEN PushWarning(st, "Ignoring 'required' at "
                        \o pathToString(context.path)
                        \o " because schema is not an object")
                 ELSE st)
    ELSE LET a == assignMap(h, "properties", Get(cleaned, "properties"), FALSE,
                            context, Built(result, st))
             b == assignMap(h, "patternProperties", Get(cleaned, "patternProperties"),
                            TRUE, context, a)
             c == assignAdditionalProperties(h, Get(cleaned, "additionalProperties"),
                                             context, b)
         IN InOrder(<<a, b, c, assignRequired(cleaned, context, c)>>)

\* Lines 405-411: title and description, trimmed, when not blank.
copyTrimmed(cleaned, result, key) ==
  IF IsString(Get(cleaned, key)) /\ Trim(Get(cleaned, key).s) # ""
    THEN Put(result, key, Str(Trim(Get(cleaned, key).s)))
    ELSE result

\* Lines 413-421: enum, without undefined members and duplicates.
copyEnum(enum, result) ==
  IF IsArray(enum) /\ Len(dedupe(SelectSeq(enum.a, LAMBDA v : ~IsUndef(v)))) > 0
    THEN Put(result, "enum", Arr(dedupe(SelectSeq(enum.a, LAMBDA v : ~IsUndef(v)))))
    ELSE result

\* Lines 423-425: const.
copyConst(const, result) ==
  IF ~IsUndef(const) THEN Put(result, "const", const) ELSE result

\* Lines 405-425: title, description, enum and const.
copyAnnotations(cleaned, result) ==
  copyConst(Get(cleaned, "const"),
    copyEnum(Get(cleaned, "enum"),
      copyTrimmed(cleaned, copyTrimmed(cleaned, result, "title"), "description")))

\* Lines 435-438: a node left without a type but with items is an array.
forceArrayType(result) ==
  IF ~Truthy(Get(result, "type")) /\ Truthy(Get(result, "items"))
    THEN Put(result, "type", Str("array")) ELSE result

\* Lines 432-438: a node left without a type takes it from its children.
forceType(result) ==
  forceArrayType(IF ~Truthy(Get(result, "type"))
                    /\ (Truthy(Get(result, "properties"))
                        \/ Truthy(Get(result, "additionalProperties")))
                   THEN Put(result, "type", Str("object")) ELSE result)

\* Lines 382-396: the resolved type; `type` is what normalizeType returned.
resolveType(cleaned, type) ==
  applyNullable(IsTrue(Get(cleaned, "nullable")),
                IF ~IsUndef(type) THEN type ELSE inferType(cleaned))

\* A result that starts with every entry of the cleaned node.
resultFromCleaned(cleaned) == cleaned

\* Line 379: const result: JSONSchema = {}
newResult(cleaned) == <<>>

\* Lines 398-428: result = { type }, then annotations and scalar constraints.
assignScalarConstraints(cleaned, resolvedType) ==
  assignNumericConstraints(cleaned,
    assignStringConstraints(cleaned,
      copyAnnotations(cleaned,
        IF ~IsUndef(resolvedType)
          THEN Put(newResult(cleaned), "type", resolvedType)
          ELSE newResult(cleaned))))

\* Lines 429-430: the array and then the object constraints.
assignStructure(h, cleaned, scalar, context, st) ==
  LET arr == assignArrayConstraints(h, cleaned, scalar, context, st)
  IN InOrder(<<arr, assignObjectConstraints(h, cleaned, arr.result, context, arr.st)>>)

\* Lines 432-442: the forced type, the description, and the node is returned.
finishNode(h, context, obj) ==
  [node |-> ensureDescription(h, forceType(obj.result), context), st |-> obj.st]

\* Lines 379-442: the node once its unsupported keywords are removed.
normalizeCleaned(h, cleaned, context, st) ==
  LET t == normalizeType(Get(cleaned, "type"), context, st)
      obj == assignStructure(h, Del(cleaned, "nullable"),
               assignScalarConstraints(Del(cleaned, "nullable"),
                                       resolveType(cleaned, t.type)),
               context, t.st)
  IN InOrder(<<t, obj, finishNode(h, context, obj)>>)

\* A cleanUnsupportedKeywords that removes the keywords from the schema it
\* was given, and returns it.
schemaItself(schema) == schema

\* Lines 291 and 378: const cleaned = {}, filled with the entries that stay.
cleanedObject(schema) == NewObject

\* Line 402: delete cleaned.nullable
deleteNullable(st, cleaned) ==
  [st EXCEPT !.written = @ \cup Write(cleaned, "nullable", Undef)]

normalizeNode(h, schema, context, st) ==
  IF ~isPlainObject(schema)
    THEN [node |-> Fallback,
          st |-> PushError(st, "invalid_schema", "Expected schema object",
                           pathToString(context.path))]
  ELSE IF DepthExceeded(context)
    THEN [node |-> Fallback,
          st |-> PushError(st, "max_depth_exceeded",
                   "Maximum depth of " \o NumStr(context.options.maxDepth)
                     \o " exceeded",
                   pathToString(context.path))]
  ELSE IF seenHas(st, schema)
    THEN [node |-> Fallback,
          st |-> PushError(st, "circular_reference", "Circular reference detected",
                           pathToString(context.path))]
  ELSE LET c == cleanUnsupportedKeywords(Entries(h, schema), context,
                 deleteNullable(seenAdd(st, schema, context),
                                cleanedObject(schema)))
       IN InOrder(<<c, normalizeCleaned(h, c.cleaned, context, c.st)>>)

\* Lines 109-113: what normalizeSchema returns from the root call.
collectResult(r) ==
  [schema |-> r.node, errors |-> r.st.errors, warnings |-> r.st.warnings,
   admitted |-> r.st.admitted, written |-> r.st.written]

normalizeSchema(h, schema, config) ==
  collectResult(normalizeNode(h, schema, RootContext(config), FreshState))

(***************************************************************************)
(* Top-level calls.  Every call of normalizeSchema builds its own context  *)
(* (lines 98-105); `previous` stands for the visited set that the call     *)
(* before it in the same program filled, which a new WeakSet knows nothing *)
(* of.  A call's outcome is its result and the visited set it leaves.      *)
(***************************************************************************)
\* A context that goes on with the visited set of the call before.
keptWeakSet(previous) == previous

\* Line 102: seen: new WeakSet<object>()
newWeakSet(previous) == {}

\* Lines 95-105: errors, warnings and the context of one call.
NewContextState(previous) == [FreshState EXCEPT !.seen = newWeakSet(previous)]

callOutcome(r) == [result |-> collectResult(r), seen |-> r.st.seen]

topLevelCall(h, schema, config, previous) ==
  callOutcome(normalizeNode(h, schema, RootContext(config), NewContextState(previous)))

(***************************************************************************)
(* normalizeTools.  The accumulator `acc` is the errors and warnings       *)
(* arrays of the call (lines 142-143), with the visited set left by the    *)
(* last normalizeSchema call made for a declaration.                       *)
(***************************************************************************)
\* A prependPath that leaves the path as normalizeSchema reported it.
keepPath(prefix, suffix) == suffix

prependPath(prefix, suffix) ==
  IF suffix = "" \/ suffix = "root" THEN prefix ELSE prefix \o "." \o suffix

toolPath(toolIndex) == "tools[" \o NumStr(toolIndex) \o "]"

declarationPath(toolIndex, declIndex) ==
  toolPath(toolIndex) \o ".function_declarations[" \o NumStr(declIndex) \o "]"

Mapped(value, acc) == [value |-> value, acc |-> acc]

\* An entry that is no object, passed through without a diagnostic.
silentEntry(value, message, path, acc) == Mapped(value, acc)

\* Lines 146-153 and 171-178: the entry is reported and returned as it is.
invalidEntry(value, message, path, acc) ==
  Mapped(value,
         [acc EXCEPT !.errors = Append(@, [type |-> "invalid_schema",
                                           message |-> message, path |-> path])])

\* A declaration whose name is left as it came.
keepName(declaration, declIndex) == declaration

\* Lines 185-189: the name of the function.
assignName(declaration, declIndex) ==
  Put(declaration, "name",
      IF IsString(Get(declaration, "name")) THEN Get(declaration, "name")
      ELSE Str("function_" \o NumStr(declIndex)))

\* Lines 191-199: the description, trimmed, or a generated one.
assignFunctionDescription(declaration, rawDescription) ==
  Put(declaration, "description",
      IF rawDescription = ""
        THEN Str(generateFunctionDescription(Get(declaration, "name").s))
        ELSE Str(rawDescription))

\* Lines 191-200
describeDeclaration(declaration, opts) ==
  IF opts.generateDescriptions
    THEN assignFunctionDescription(declaration,
           IF IsString(Get(declaration, "description"))
             THEN Trim(Get(declaration, "description").s)
             ELSE "")
    ELSE declaration

\* Lines 206-221: the diagnostics of the parameters join those of the tools.
mergeDiagnostics(prefix, acc, call) ==
  [errors |-> acc.errors
                \o [k \in 1..Len(call.result.errors) |->
                      [call.result.errors[k] EXCEPT
                         !.path = prependPath(prefix \o ".parameters", @)]],
   warnings |-> acc.warnings
                  \o [k \in 1..Len(call.result.warnings) |->
                        prefix \o ": " \o call.result.warnings[k]],
   seen |-> call.seen,
   written |-> acc.written \cup call.result.written]

\* Lines 202-221
assignParameters(declaration, prefix, acc, call) ==
  InOrder(<<call,
            Mapped(Lit(Put(declaration, "parameters", Lit(call.result.schema))),
                   mergeDiagnostics(prefix, acc, call))>>)

\* Lines 201-224
normalizeParameters(h, declaration, prefix, opts, acc) ==
  IF InObject(declaration, "parameters")
    THEN assignParameters(declaration, prefix, acc,
           topLevelCall(h, Get(declaration, "parameters"), opts, acc.seen))
    ELSE Mapped(Lit(declaration), acc)

\* Lines 155 and 180-182: { ...tool } and { ...declaration } are new objects.
spreadCopy(object) == NewObject

\* The keys assigned to the copy of an entry, as the callback leaves them.
assignedTo(copy, keys, r) ==
  InOrder(<<r,
            [r EXCEPT !.acc.written =
               @ \cup UNION {IF Has(r.value.e, key)
                               THEN Write(copy, key, Get(r.value.e, key)) ELSE {} :
                             key \in keys}]>>)

\* Lines 171-224: one callback of declarations.map(...).
normalizeDeclaration(h, declaration, toolIndex, declIndex, opts, acc) ==
  IF ~isPlainObject(declaration)
    THEN invalidEntry(declaration, "Function declaration must be an object",
                      declarationPath(toolIndex, declIndex), acc)
    ELSE assignedTo(spreadCopy(declaration), {"name", "description", "parameters"},
           normalizeParameters(h,
             describeDeclaration(assignName(Entries(h, declaration), declIndex),
                                 opts),
             declarationPath(toolIndex, declIndex), opts, acc))

\* The array a map() builds, extended by what one callback returned.
appendMapped(init, r) ==
  InOrder(<<r, [result |-> Append(init.result, r.value), acc |-> r.acc]>>)

\* Lines 169-226: declarations.map((declaration, declIndex) => ...)
RECURSIVE normalizeDeclarations(_, _, _, _, _)
normalizeDeclarations(h, declarations, toolIndex, opts, acc) ==
  IF Len(declarations) = 0 THEN [result |-> <<>>, acc |-> acc]
  ELSE LET init == normalizeDeclarations(h,
                     SubSeq(declarations, 1, Len(declarations) - 1),
                     toolIndex, opts, acc)
       IN InOrder(<<init,
                    appendMapped(init,
                      normalizeDeclaration(h, declarations[Len(declarations)],
                                           toolIndex, Len(declarations) - 1, opts,
                                           init.acc))>>)

\* Lines 169-228: normalizedTool.function_declarations = declarations.map(...)
assignDeclarations(tool, m) ==
  InOrder(<<m, Mapped(Lit(Put(tool, "function_declarations", Arr(m.result))),
                      m.acc)>>)

\* Lines 145-229: one callback of tools.map(...).
normalizeTool(h, tool, toolIndex, opts, acc) ==
  IF ~isPlainObject(tool)
    THEN invalidEntry(tool, "Tool entry must be an object", toolPath(toolIndex), acc)
  ELSE IF ~IsArray(Get(Entries(h, tool), "function_declarations"))
    THEN Mapped(Lit(Entries(h, tool)), acc)
  ELSE assignedTo(spreadCopy(tool), {"function_declarations"},
         assignDeclarations(Entries(h, tool),
           normalizeDeclarations(h, Get(Entries(h, tool), "function_declarations").a,
                                 toolIndex, opts, acc)))

\* Lines 145-229: tools.map((tool, toolIndex) => ...)
RECURSIVE normalizeToolList(_, _, _, _)
normalizeToolList(h, tools, opts, acc) ==
  IF Len(tools) = 0 THEN [result |-> <<>>, acc |-> acc]
  ELSE LET init == normalizeToolList(h, SubSeq(tools, 1, Len(tools) - 1), opts, acc)
       IN InOrder(<<init,
                    appendMapped(init,
                      normalizeTool(h, tools[Len(tools)], Len(tools) - 1, opts,
                                    init.acc))>>)

\* Lines 231-235: what normalizeTools returns, with the visited set its last
\* normalizeSchema call left.
collectTools(m) ==
  [tools |-> m.result, errors |-> m.acc.errors, warnings |-> m.acc.warnings,
   seen |-> m.acc.seen, written |-> m.acc.written]

\* A normalizeTools that takes a payload that is no array for an empty one.
normalizeToolsLenient(h, tools, config, previous) ==
  [tools |-> <<>>, errors |-> <<>>, warnings |-> <<>>, seen |-> previous,
   written |-> {}]

\* Lines 128-140: the payload is not an array.
rejectTools(h, tools, config, previous) ==
  [tools |-> <<>>,
   errors |-> <<[type |-> "invalid_schema",
                 message |-> "Tools payload must be an array", path |-> "tools"]>>,
   warnings |-> <<>>,
   seen |-> previous,
   written |-> {}]

\* normalizeTools(tools, config), called after a call that left `previous`.
normalizeToolsAfter(h, tools, config, previous) ==
  IF ~IsArray(tools) THEN rejectTools(h, tools, config, previous)
  ELSE collectTools(normalizeToolList(h, tools.a, config,
                      [errors |-> <<>>, warnings |-> <<>>, seen |-> previous,
                       written |-> {}]))

normalizeTools(h, tools, config) == normalizeToolsAfter(h, tools, config, {})

(***************************************************************************)
(* validateNormalizedSchema                                                *)
(***************************************************************************)
\* Line 256: const types = Array.isArray(type) ? type : [type]
typeEntries(type) == IF IsArray(type) THEN type.a ELSE <<type>>

\* Lines 259-262
unsupportedType(entry) ==
  [type |-> "validation_error",
   message |-> "Unsupported type '" \o StringOf(entry, FALSE) \o "'"]

\* Lines 257-264: one error for every entry that is no name of VALID_TYPES.
unsupportedTypes(entries) ==
  SelectSeq([k \in 1..Len(entries) |->
               IF IsString(entries[k]) /\ entries[k].s \in VALID_TYPES
                 THEN Undef ELSE unsupportedType(entries[k])],
            LAMBDA e : e # Undef)

\* Lines 254-265
validateType(type) ==
  IF IsUndef(type) THEN <<>> ELSE unsupportedTypes(typeEntries(type))

\* Lines 275-279
missingRequired(key) ==
  [type |-> "validation_error",
   message |-> "Required key '" \o key \o "' missing from properties",
   path |-> key]

\* Lines 273-281: `key in properties` for every entry of required.
missingKeys(properties, required) ==
  SelectSeq([k \in 1..Len(required) |->
               IF InObject(properties, StringOf(required[k], FALSE))
                 THEN Undef ELSE missingRequired(StringOf(required[k], FALSE))],
            LAMBDA e : e # Undef)

\* Lines 267-282: checked only for an array `required` next to an object
\* `properties`.
validateRequired(h, schema) ==
  IF IsArray(Get(schema, "required")) /\ isPlainObject(Get(schema, "properties"))
    THEN missingKeys(Entries(h, Get(schema, "properties")), Get(schema, "required").a)
    ELSE <<>>

\* Lines 242-285
validateNormalizedSchema(h, schema) ==
  IF ~isPlainObject(schema)
    THEN <<[type |-> "invalid_schema", message |-> "Schema must be an object"]>>
    ELSE validateType(Get(Entries(h, schema), "type"))
           \o validateRequired(h, Entries(h, schema))

(***************************************************************************)
(* Subschema positions.  Positions(h, node) lists the places of a node     *)
(* that hold a subschema, in the order normalizeNode visits them: items,   *)
(* contains, properties, patternProperties, additionalProperties.          *)
(***************************************************************************)
Position(kw, key, idx, to) == [kw |-> kw, key |-> key, idx |-> idx, to |-> to]

EntriesOf(h, v) == IF isPlainObject(v) THEN Entries(h, v) ELSE <<>>

MapPositions(h, kw, map) ==
  LET es == EntriesOf(h, map)
  IN [i \in 1..Len(es) |-> Position(kw, es[i][1], 0, es[i][2])]

ItemPositions(items) ==
  IF IsUndef(items) THEN <<>>
  ELSE IF IsArray(items)
    THEN [i \in 1..Len(items.a) |-> Position("items", "", i, items.a[i])]
  ELSE <<Position("items", "", 0, items)>>

Positions(h, node) ==
  ItemPositions(Get(node, "items"))
    \o (IF IsUndef(Get(node, "contains")) THEN <<>>
        ELSE <<Position("contains", "", 0, Get(node, "contains"))>>)
    \o MapPositions(h, "properties", Get(node, "properties"))
    \o MapPositions(h, "patternProperties", Get(node, "patternProperties"))
    \o (IF isPlainObject(Get(node, "additionalProperties"))
          THEN <<Position("additionalProperties", "", 0,
                          Get(node, "additionalProperties"))>>
          ELSE <<>>)

\* The path segment and the hint childContext is given for a position.
Segment(p) ==
  CASE p.kw = "properties" -> p.key
    [] p.kw = "patternProperties" -> "patternProperties[" \o p.key \o "]"
    [] p.kw = "items" /\ p.idx > 0 -> "items[" \o NumStr(p.idx - 1) \o "]"
    [] OTHER -> p.kw

Hint(p) == IF p.kw \in {"properties", "patternProperties"} THEN Str(p.key) ELSE Undef

PositionContext(context, p) == childContext(context, Segment(p), Hint(p))

\* The value an output node holds at position p (undefined when it has none).
Sub(node, p) ==
  CASE p.kw \in {"properties", "patternProperties"} ->
         Get(EntriesOf(<<>>, Get(node, p.kw)), p.key)
    [] p.kw = "items" /\ p.idx > 0 ->
         IF IsArray(Get(node, "items")) /\ p.idx <= Len(Get(node, "items").a)
           THEN Get(node, "items").a[p.idx]
           ELSE Undef
    [] OTHER -> Get(node, p.kw)

\* The nodes of an output schema (every one a literal) and its height.
OutChildren(node) ==
  LET ps == Positions(<<>>, node)
  IN {ps[i].to.e : i \in {j \in 1..Len(ps) : ps[j].to.k = "lit"}}

RECURSIVE AllNodes(_)
AllNodes(node) == {node} \cup UNION {AllNodes(c) : c \in OutChildren(node)}

RECURSIVE OutDepth(_)
OutDepth(node) ==
  IF OutChildren(node) = {} THEN 0
  ELSE LET below == {OutDepth(c) : c \in OutChildren(node)}
       IN 1 + CHOOSE d \in below : \A e \in below : e <= d

CountErrors(errors, type) ==
  Cardinality({i \in 1..Len(errors) : errors[i].type = type})

ErrorsAt(errors, path) == {i \in 1..Len(errors) : errors[i].path = path}

\* { type: "object" }, written out.
ObjectOnly == <<<<"type", Str("object")>>>>

(***************************************************************************)
(* The input graph: arena nodes, the references between them, ancestors.   *)
(***************************************************************************)
Children(h, n) ==
  LET ps == Positions(h, h[n])
  IN {ps[i].to.id : i \in {j \in 1..Len(ps) : ps[j].to.k = "obj"}}

RECURSIVE ReachFrom(_, _)
ReachFrom(h, S) ==
  LET T == S \cup UNION {Children(h, n) : n \in S}
  IN IF T = S THEN S ELSE ReachFrom(h, T)

\* The nodes reached from n through one reference or more.
Descendants(h, n) == ReachFrom(h, Children(h, n))

Acyclic(h, root) == \A n \in ReachFrom(h, {root}) : n \notin Descendants(h, n)

RECURSIVE LevelFrom(_, _, _, _)
LevelFrom(h, S, n, k) ==
  IF n \in S THEN k
  ELSE LevelFrom(h, S \cup UNION {Children(h, m) : m \in S}, n, k + 1)

\* The least number of references from the root to a reachable node n.
Level(h, root, n) == LevelFrom(h, {root}, n, 0)

\* A reference is a position of a reachable node that holds an arena node.
At(h, r) == Positions(h, h[r.from])[r.i]

References(h, root) ==
  {r \in UNION {{[from |-> n, i |-> i] : i \in 1..Len(Positions(h, h[n]))} :
                  n \in ReachFrom(h, {root})} :
     At(h, r).to.k = "obj"}

\* A reference to the node that holds it or to one of that node's ancestors.
IsBackReference(h, root, r) ==
  LET t == At(h, r).to.id
  IN r.from \in ReachFrom(h, {t}) /\ Level(h, root, t) <= Level(h, root, r.from)

\* The input is a tree but for one reference, which points back.
OneBackReference(h, root) ==
  /\ Cardinality(References(h, root)) = Cardinality(ReachFrom(h, {root}))
  /\ ~Acyclic(h, root)

BackReference(h, root) ==
  CHOOSE r \in References(h, root) : IsBackReference(h, root, r)

\* The positions from the root down to node n of such an input.
RECURSIVE PathTo(_, _, _)
PathTo(h, root, n) ==
  IF n = root THEN <<>>
  ELSE LET r == CHOOSE r \in References(h, root) :
                  At(h, r).to.id = n /\ ~IsBackReference(h, root, r)
       IN Append(PathTo(h, root, r.from), At(h, r))

RECURSIVE ContextAt(_, _)
ContextAt(opts, path) ==
  IF Len(path) = 0 THEN RootContext(opts)
  ELSE PositionContext(ContextAt(opts, SubSeq(path, 1, Len(path) - 1)),
                       path[Len(path)])

RECURSIVE OutAt(_, _)
OutAt(schema, path) ==
  IF Len(path) = 0 THEN schema
  ELSE EntriesOf(<<>>, Sub(OutAt(schema, SubSeq(path, 1, Len(path) - 1)),
                           path[Len(path)]))

(***************************************************************************)
(* Inputs.  Each case is an arena, a root value and the options of one     *)
(* call.  An arena object holds references and primitives only, so every   *)
(* literal is reached along exactly one path.                              *)
(***************************************************************************)
MaxNodes == 3
MaxDepthOpt == 3
MaxChain == 4

NodeIds == 1..MaxNodes

PropKeys == <<"a", "b">>

Options(maxDepth, generateDescriptions, inferRequired) ==
  [maxDepth |-> maxDepth, generateDescriptions |-> generateDescriptions,
   inferRequired |-> inferRequired]

Case(h, root, opts) == [heap |-> h, root |-> root, options |-> opts]

Object(entries) == Lit(entries)

TypeOnly(name) == Object(<<<<"type", Str(name)>>>>)

\* Graphs of schema nodes 1..MaxNodes.  Node 1, the root, is an object
\* schema whose property map is arena object MaxNodes + 1; every other node
\* has at most one child, reached through the edge kind of the graph.
EdgeKinds == {"properties", "items", "itemsArray", "contains",
              "patternProperties", "additionalProperties"}

Targets == {ObjRef(i) : i \in NodeIds} \cup {Str("oops")}

RootProps == UNION {[1..n -> Targets] : n \in 0..Len(PropKeys)}

EdgeEntry(i, kind, dst) ==
  CASE dst = 0 -> <<>>
    [] kind = "properties" -> <<<<"properties", ObjRef(MaxNodes + i)>>>>
    [] kind = "items" -> <<<<"items", ObjRef(dst)>>>>
    [] kind = "itemsArray" -> <<<<"items", Arr(<<ObjRef(dst)>>)>>>>
    [] kind = "contains" -> <<<<"items", TypeOnly("string")>>,
                              <<"contains", ObjRef(dst)>>>>
    [] kind = "patternProperties" ->
         <<<<"patternProperties", ObjRef(MaxNodes + i)>>>>
    [] OTHER -> <<<<"additionalProperties", ObjRef(dst)>>>>

\* Arena objects 1..MaxNodes are the schema nodes, MaxNodes + i is the
\* property (or pattern-property) map of node i.
GraphHeap(props, kind, child) ==
  [i \in 1..(2 * MaxNodes) |->
     IF i = 1
       THEN <<<<"type", Str("object")>>>>
              \o (IF Len(props) > 0 THEN <<<<"properties", ObjRef(MaxNodes + 1)>>>>
                  ELSE <<>>)
     ELSE IF i <= MaxNodes
       THEN <<<<"type", Str(IF kind \in {"items", "itemsArray", "contains"}
                              THEN "array" ELSE "object")>>>>
              \o EdgeEntry(i, kind, child[i])
     ELSE IF i = MaxNodes + 1
       THEN [j \in 1..Len(props) |-> <<PropKeys[j], props[j]>>]
     ELSE IF child[i - MaxNodes] # 0
       THEN <<<<IF kind = "properties" THEN "c" ELSE "^c",
                ObjRef(child[i - MaxNodes])>>>>
     ELSE <<>>]

GraphCase(p, kind, c, m) ==
  Case(GraphHeap(p, kind, c), ObjRef(1), Options(m, TRUE, TRUE))

\* Chains of fresh nested `properties` objects, `depth` levels below the root.
RECURSIVE Chain(_, _, _)
Chain(depth, typed, leaf) ==
  IF depth = 0 THEN TypeOnly(leaf)
  ELSE Object((IF typed THEN <<<<"type", Str("object")>>>> ELSE <<>>)
              \o <<<<"properties",
                     Object(<<<<"nested", Chain(depth - 1, typed, leaf)>>>>)>>>>)

ChainCase(d, typed, leaf, m, g) ==
  Case(<<>>, Chain(d, typed, leaf), Options(m, g, TRUE))

\* Single nodes: a declared type, a nullable flag and one group of further
\* keywords, at the root or as the property `key` of an object.
TypeChoices ==
  {Undef, Str("string"), Str("number"), Str("integer"), Str("boolean"),
   Str("object"), Str("array"), Str("null"), Str("foo"), Num(5),
   Arr(<<Str("string"), Str("null")>>), Arr(<<Str("string"), Str("string")>>),
   Arr(<<Str("number"), Str("string")>>), Arr(<<Str("foo"), Num(1)>>),
   Arr(<<Str("null"), Str("foo")>>), Arr(<<>>)}

NullableChoices == {Undef, Bool(TRUE), Bool(FALSE), Str("true")}

KeywordChoices ==
  {<<>>,
   <<<<"enum", Arr(<<Str("a"), Str("b")>>)>>>>,
   <<<<"enum", Arr(<<Str("a"), Str("a"), Null>>)>>>>,
   <<<<"enum", Arr(<<Num(1), Str("a"), Undef>>)>>>>,
   <<<<"enum", Arr(<<Undef>>)>>>>,
   <<<<"enum", Arr(<<Null>>)>>>>,
   <<<<"enum", Arr(<<>>)>>>>,
   <<<<"const", Str("x")>>>>,
   <<<<"const", Num(1)>>>>,
   <<<<"const", Null>>>>,
   <<<<"const", Bool(FALSE)>>>>,
   <<<<"pattern", Str("^a")>>>>,
   <<<<"format", Str("email")>>, <<"minLength", Num(1)>>>>,
   <<<<"maxLength", Num(9)>>>>,
   <<<<"minimum", Num(0)>>, <<"maximum", Num(9)>>>>,
   <<<<"exclusiveMinimum", Num(0)>>>>,
   <<<<"items", TypeOnly("string")>>>>,
   <<<<"items", Arr(<<TypeOnly("string"), Num(1)>>)>>>>,
   <<<<"minItems", Num(1)>>, <<"uniqueItems", Bool(TRUE)>>>>,
   <<<<"contains", TypeOnly("number")>>>>,
   <<<<"properties", Object(<<<<"a", TypeOnly("string")>>>>)>>>>,
   <<<<"properties", Str("bad")>>, <<"required", Arr(<<Str("a")>>)>>>>,
   <<<<"patternProperties", Object(<<<<"^x", TypeOnly("string")>>>>)>>>>,
   <<<<"additionalProperties", Bool(FALSE)>>>>,
   <<<<"additionalProperties", TypeOnly("string")>>>>,
   <<<<"minProperties", Num(1)>>>>,
   <<<<"required", Arr(<<Str("a")>>)>>>>,
   <<<<"default", Str("x")>>>>,
   <<<<"default", Num(5)>>>>,
   <<<<"default", Null>>>>,
   <<<<"optional", Bool(TRUE)>>>>,
   <<<<"title", Str("  my_title ")>>>>,
   <<<<"description", Str(" given ")>>>>,
   <<<<"description", Str("  ")>>>>,
   <<<<"$schema", Str("http://json-schema.org/draft-07/schema#")>>>>,
   <<<<"$ref", Str("#/definitions/User")>>>>,
   <<<<"anyOf", Arr(<<TypeOnly("string"), TypeOnly("number")>>)>>>>,
   <<<<"$schema", Str("http://json-schema.org/draft-07/schema#")>>,
     <<"$ref", Str("#/definitions/User")>>,
     <<"anyOf", Arr(<<TypeOnly("string"), TypeOnly("number")>>)>>>>,
   <<<<"$id", Str("urn:x")>>, <<"examples", Arr(<<Str("e")>>)>>,
     <<"deprecated", Bool(TRUE)>>>>}

SingleNode(type, nullable, keywords) ==
  Object((IF IsUndef(type) THEN <<>> ELSE <<<<"type", type>>>>)
         \o (IF IsUndef(nullable) THEN <<>> ELSE <<<<"nullable", nullable>>>>)
         \o keywords)

HintKeys == {"", "userName", "_"}

Placed(key, node) ==
  IF key = "" THEN node
  ELSE Object(<<<<"type", Str("object")>>,
                <<"properties", Object(<<<<key, node>>>>)>>>>)

NodeCase(t, n, kw, key, g) ==
  Case(<<>>, Placed(key, SingleNode(t, n, kw)), Options(DefaultMaxDepth, g, TRUE))

\* Objects with two properties and a declared `required` list.
PropertyChoices ==
  {TypeOnly("string"),
   Object(<<<<"type", Str("string")>>, <<"nullable", Bool(TRUE)>>>>),
   Object(<<<<"type", Str("number")>>, <<"optional", Bool(TRUE)>>>>),
   Object(<<<<"type", Str("string")>>, <<"default", Str("x")>>>>),
   Object(<<<<"type", Arr(<<Str("string"), Str("number")>>)>>>>),
   Object(<<<<"description", Str("no type")>>>>),
   Object(<<<<"const", Str("k")>>>>),
   Str("oops")}

RequiredChoices ==
  {Undef,
   Str("id"),
   Arr(<<>>),
   Arr(<<Str("id")>>),
   Arr(<<Str("zzz")>>),
   Arr(<<Str("email"), Str("id"), Str("email")>>),
   Arr(<<Str("id"), Num(5), Str("zzz"), Null>>),
   Arr(<<Str("toString")>>)}

RequiredNode(type, withProperties, first, second, required) ==
  Object((IF IsUndef(type) THEN <<>> ELSE <<<<"type", type>>>>)
         \o (IF withProperties
               THEN <<<<"properties",
                        Object(<<<<"id", first>>, <<"email", second>>>>)>>>>
               ELSE <<>>)
         \o (IF IsUndef(required) THEN <<>> ELSE <<<<"required", required>>>>))

RequiredCase(t, withProperties, a, b, r, i) ==
  Case(<<>>, RequiredNode(t, withProperties, a, b, r),
       Options(DefaultMaxDepth, TRUE, i))

(***************************************************************************)
(* The calls                                                               *)
(***************************************************************************)
NoResult ==
  [schema |-> <<>>, errors |-> <<>>, warnings |-> <<>>, admitted |-> <<>>,
   written |-> {}]

\* What a handler leaves of the request it answered: the error code (none
\* when the request went on to proxyToGemini), the body sent on, the id of
\* the pending call handed out, and the pendingCalls map as it found it.
NoReply == [code |-> "", request |-> <<>>, body |-> <<>>, id |-> 0, before |-> <<>>]

\* Line 24: pendingCalls = new Map(), and no request yet.
NoRequests ==
  /\ pendingCalls = <<>>
  /\ inflight = {}
  /\ reply = NoReply
  /\ received = 0

Start(c) ==
  /\ NoRequests
  /\ heap = c.heap
  /\ input = c.root
  /\ options = c.options
  /\ phase = "ready"
  /\ out = NoResult
  /\ out2 = NoResult

\* A node the root does not reach has no child: what is unreachable in the
\* arena plays no part in the call.
GraphInit ==
  \E p \in RootProps, kind \in EdgeKinds,
     c \in [NodeIds \ {1} -> {0} \cup NodeIds], m \in 1..MaxDepthOpt :
    /\ \A n \in NodeIds \ ReachFrom(GraphHeap(p, kind, c), {1}) : c[n] = 0
    /\ Start(GraphCase(p, kind, c, m))

ChainInit ==
  \E d \in 1..MaxChain, typed \in BOOLEAN, leaf \in {"object", "string"},
     m \in (1..MaxChain) \cup {DefaultMaxDepth}, g \in BOOLEAN :
    Start(ChainCase(d, typed, leaf, m, g))

NodeInit ==
  \E t \in TypeChoices, n \in NullableChoices, kw \in KeywordChoices,
     key \in HintKeys, g \in BOOLEAN :
    Start(NodeCase(t, n, kw, key, g))

RequiredInit ==
  \/ \E t \in {Undef, Str("object"), Str("string")}, a \in PropertyChoices,
        b \in PropertyChoices, r \in RequiredChoices, i \in BOOLEAN :
       Start(RequiredCase(t, TRUE, a, b, r, i))
  \/ \E t \in {Undef, Str("object"), Str("string"), Str("array")},
        r \in RequiredChoices, i \in BOOLEAN :
       Start(RequiredCase(t, FALSE, Undef, Undef, r, i))

Init == GraphInit \/ ChainInit \/ NodeInit \/ RequiredInit

\* normalizeSchema(input, options)
NormalizeSchema ==
  /\ phase = "ready"
  /\ out' = normalizeSchema(heap, input, options)
  /\ heap' = Written(heap, out'.written)
  /\ phase' = "normalized"
  /\ UNCHANGED <<input, options, out2, proxy>>

\* normalizeSchema(normalizeSchema(input, options).schema, options)
Renormalize ==
  /\ phase = "normalized"
  /\ out2' = normalizeSchema(heap, Lit(out.schema), options)
  /\ heap' = Written(heap, out2'.written)
  /\ phase' = "renormalized"
  /\ UNCHANGED <<input, options, out, proxy>>

Next == NormalizeSchema \/ Renormalize

Spec == Init /\ [][Next]_vars

GraphSpec == GraphInit /\ [][Next]_vars

ChainSpec == ChainInit /\ [][Next]_vars

NodeSpec == NodeInit /\ [][Next]_vars

RequiredSpec == RequiredInit /\ [][Next]_vars

\* Single nodes and objects with a declared `required` list together.
ObjectSpec == (NodeInit \/ RequiredInit) /\ [][Next]_vars

\* Nodes with a declared type and two groups of constraint keywords, of the
\* same kind as the type or of another.
ConstraintTypes ==
  {Undef, Str("string"), Str("number"), Str("integer"), Str("boolean"),
   Str("object"), Str("array"), Str("foo"),
   Arr(<<Str("string"), Str("null")>>), Arr(<<Str("foo"), Str("number"), Str("bar")>>)}

ConstraintChoices ==
  {<<>>,
   <<<<"pattern", Str("^a")>>, <<"minLength", Num(2)>>>>,
   <<<<"format", Str("email")>>>>,
   <<<<"minLength", Num(1)>>, <<"maxLength", Num(9)>>>>,
   <<<<"minimum", Num(0)>>, <<"exclusiveMaximum", Num(9)>>>>,
   <<<<"exclusiveMinimum", Num(0)>>>>,
   <<<<"items", TypeOnly("string")>>, <<"uniqueItems", Bool(TRUE)>>>>,
   <<<<"minItems", Num(1)>>>>,
   <<<<"uniqueItems", Bool(TRUE)>>, <<"contains", TypeOnly("number")>>>>,
   <<<<"properties", Object(<<<<"p", TypeOnly("string")>>>>)>>>>,
   <<<<"minProperties", Num(1)>>, <<"maxProperties", Num(2)>>>>,
   <<<<"additionalProperties", Bool(FALSE)>>>>,
   <<<<"patternProperties", Object(<<<<"^p", TypeOnly("string")>>>>)>>>>,
   <<<<"required", Arr(<<Str("p")>>)>>, <<"default", Num(1)>>,
     <<"x-internal", Bool(TRUE)>>>>}

ConstraintCase(t, first, second, g) ==
  Case(<<>>, SingleNode(t, Undef, first \o second), Options(DefaultMaxDepth, g, TRUE))

ConstraintInit ==
  \E t \in ConstraintTypes, first \in ConstraintChoices, second \in ConstraintChoices,
     g \in BOOLEAN :
    /\ \A i \in 1..Len(first), j \in 1..Len(second) : first[i][1] # second[j][1]
    /\ Start(ConstraintCase(t, first, second, g))

ConstraintSpec == ConstraintInit /\ [][Next]_vars

(***************************************************************************)
(* Tools payloads.  The arena holds two parameter schemas, which several   *)
(* declarations may share, and one tool object.                            *)
(***************************************************************************)
MaxTools == 2
MaxDecls == 2

\* Scenario C: { type: "object", properties: { a: { type: "number" } } }
ScenarioC ==
  <<<<"type", Str("object")>>,
    <<"properties", Object(<<<<"a", TypeOnly("number")>>>>)>>>>

\* A schema with diagnostics: a property that is no schema, an unsupported
\* type, a removed keyword and an unknown required key.
Flawed ==
  <<<<"type", Str("object")>>,
    <<"$schema", Str("urn:s")>>,
    <<"nullable", Bool(TRUE)>>,
    <<"properties", Object(<<<<"root", Str("oops")>>, <<"b", TypeOnly("foo")>>>>)>>,
    <<"required", Arr(<<Str("zzz"), Str("b")>>)>>>>

Declaration(entries) == Object(entries)

DeclarationChoices ==
  {Num(5),
   Declaration(<<<<"name", Str("x")>>, <<"parameters", ObjRef(1)>>>>),
   Declaration(<<<<"name", Str("getWeather")>>, <<"description", Str("  Get it ")>>,
                 <<"parameters", ObjRef(2)>>>>),
   Declaration(<<<<"parameters", ObjRef(1)>>>>),
   Declaration(<<<<"name", Num(7)>>, <<"description", Str("   ")>>>>),
   Declaration(<<<<"name", Str("x")>>, <<"parameters", Str("bad")>>>>),
   Declaration(<<<<"name", Str("snake_case")>>, <<"parameters", Undef>>>>)}

Tool(declarations) == Object(<<<<"function_declarations", Arr(declarations)>>>>)

\* A tool object of the arena: a declaration that is no object, then one
\* that shares the parameters of Scenario C.
ArenaTool ==
  <<<<"function_declarations",
      Arr(<<Null, Declaration(<<<<"name", Str("y")>>, <<"parameters", ObjRef(1)>>>>)>>)>>,
    <<"google_search", Object(<<>>)>>>>

ToolsHeap == <<ScenarioC, Flawed, ArenaTool>>

ToolChoices ==
  {Str("oops"),
   Null,
   Object(<<<<"google_search", Object(<<>>)>>>>),
   Object(<<<<"function_declarations", Str("x")>>>>),
   Tool(<<Declaration(<<<<"name", Str("x")>>, <<"parameters", ObjRef(1)>>>>)>>),
   ObjRef(3)}

NotArrayChoices ==
  {Undef, Null, Num(0), Str("tools"),
   Tool(<<Declaration(<<<<"name", Str("x")>>, <<"parameters", ObjRef(2)>>>>)>>)}

SeqsUpTo(n, S) == UNION {[1..k -> S] : k \in 0..n}

ToolsCase(tools, m, g) == Case(ToolsHeap, tools, Options(m, g, TRUE))

NoToolsResult ==
  [tools |-> <<>>, errors |-> <<>>, warnings |-> <<>>, seen |-> {}, written |-> {}]

StartTools(c) ==
  /\ NoRequests
  /\ heap = c.heap
  /\ input = c.root
  /\ options = c.options
  /\ phase = "ready"
  /\ out = NoToolsResult
  /\ out2 = NoResult

ToolsInit ==
  \E m \in {1, DefaultMaxDepth}, g \in BOOLEAN :
    \/ \E d \in SeqsUpTo(MaxDecls, DeclarationChoices),
          before \in {<<>>, <<Str("oops")>>} :
         StartTools(ToolsCase(Arr(before \o <<Tool(d)>>), m, g))
    \/ \E t \in SeqsUpTo(MaxTools, ToolChoices) : StartTools(ToolsCase(Arr(t), m, g))
    \/ \E t \in NotArrayChoices : StartTools(ToolsCase(t, m, g))

\* normalizeTools(input, options)
NormalizeTools ==
  /\ phase = "ready"
  /\ out' = normalizeTools(heap, input, options)
  /\ heap' = Written(heap, out'.written)
  /\ phase' = "tools"
  /\ UNCHANGED <<input, options, out2, proxy>>

\* normalizeSchema(heap[1], options), called after normalizeTools returned,
\* on the parameters object the declarations share.
NormalizeShared ==
  /\ phase = "tools"
  /\ out2' = topLevelCall(heap, ObjRef(1), options, out.seen).result
  /\ heap' = Written(heap, out2'.written)
  /\ phase' = "alone"
  /\ UNCHANGED <<input, options, out, proxy>>

ToolsNext == NormalizeTools \/ NormalizeShared

ToolsSpec == ToolsInit /\ [][ToolsNext]_vars

(***************************************************************************)
(* Schemas handed to validateNormalizedSchema: arena object 1, built from  *)
(* a type, a property map and a `required` list, or a value that is no     *)
(* object.                                                                 *)
(***************************************************************************)
ValidatedTypes ==
  {Undef, Str("object"), Str("foo"), Num(3),
   Arr(<<Str("string"), Str("null")>>),
   Arr(<<Str("foo"), Str("integer"), Null, Str("foo")>>)}

ValidatedProperties ==
  {Undef, Str("oops"), Object(<<>>),
   Object(<<<<"id", TypeOnly("string")>>, <<"email", TypeOnly("string")>>>>)}

Present(entries) == SelectSeq(entries, LAMBDA e : ~IsUndef(e[2]))

ValidatedSchema(t, p, r) ==
  Present(<<<<"type", t>>, <<"properties", p>>, <<"required", r>>>>)

ValidateCase(h, root) == Case(h, root, Options(DefaultMaxDepth, TRUE, TRUE))

ValidateInit ==
  \/ \E t \in ValidatedTypes, p \in ValidatedProperties, r \in RequiredChoices :
       Start(ValidateCase(<<ValidatedSchema(t, p, r)>>, ObjRef(1)))
  \/ \E v \in {Undef, Null, Str("object"), Arr(<<TypeOnly("string")>>)} :
       Start(ValidateCase(<<>>, v))

\* validateNormalizedSchema(input)
ValidateNormalizedSchema ==
  /\ phase = "ready"
  /\ out' = [NoResult EXCEPT !.errors = validateNormalizedSchema(heap, input)]
  /\ phase' = "validated"
  /\ UNCHANGED <<heap, input, options, out2, proxy>>

ValidateNext == ValidateNormalizedSchema

ValidateSpec == ValidateInit /\ [][ValidateNext]_vars

(***************************************************************************)
(* The ToolCallProcessor of the proxy (src/deno_index.ts).  A request body *)
(* is an object; pendingCalls is the Map of line 24, its entries in        *)
(* insertion order, a tool-call id standing for the string of line 91.     *)
(* handleToolCall reads the body (the await of line 32) and then runs to   *)
(* the fetch of proxyToGemini without another suspension point, so every   *)
(* read and write of pendingCalls by one request is a single step.         *)
(***************************************************************************)
MaxRequests == 3

ProxyMaxDepth == 12

ToolCallIds == 1..MaxRequests

\* Lines 73-77: the options prepareToolCall gives to normalizeTools.
ProxyOptions == Options(ProxyMaxDepth, TRUE, TRUE)

\* Line 272: responses.length > 0
isMatchingToolCall(originalCall, responses) ==
  IsArray(responses) /\ Len(responses.a) > 0

\* Lines 261-267: the first entry of the map that matches is deleted and
\* returned; null when there is none.
findOriginalToolCall(pending, toolResponses) ==
  LET matching == {i \in 1..Len(pending) :
                     isMatchingToolCall(pending[i][2], toolResponses)}
  IN IF matching = {}
       THEN [call |-> Null, id |-> 0, pendingCalls |-> pending]
       ELSE LET first == CHOOSE i \in matching : \A j \in matching : i <= j
            IN [call |-> Lit(pending[first][2]), id |-> pending[first][1],
                pendingCalls |-> Del(pending, pending[first][1])]

\* Lines 275-281: { ...originalCall, tool_call_responses: responses }
mergeToolResponses(originalCall, responses) ==
  Put(originalCall, "tool_call_responses", responses)

\* Lines 48-68: what handleToolCallResponses replies, `found` being what
\* findOriginalToolCall returned.
toolResponsesReply(requestData, pending, found) ==
  IF ~Truthy(found.call)
    THEN [code |-> "TOOL_CALL_NOT_FOUND", request |-> requestData, body |-> <<>>,
          id |-> 0, before |-> pending]
    ELSE [code |-> "", request |-> requestData,
          body |-> mergeToolResponses(found.call.e,
                                      Get(requestData, "tool_call_responses")),
          id |-> found.id, before |-> pending]

\* Lines 73-88: requestData.tools = normalizeTools(requestData.tools, ...).tools
withNormalizedTools(requestData) ==
  Put(requestData, "tools",
      Arr(normalizeTools(<<>>, Get(requestData, "tools"), ProxyOptions).tools))

\* Request bodies.  A tool call response names the id of the call it
\* answers; `contents` tells one client's request from another's.
GetWeather ==
  Declaration(<<<<"name", Str("getWeather")>>, <<"parameters", TypeOnly("object")>>>>)

ToolResponse(id) ==
  Object(<<<<"tool_call_id", Num(id)>>, <<"output", Str("sunny")>>>>)

RequestData(contents, tools, responses) ==
  <<<<"contents", Str(contents)>>>>
    \o (IF IsUndef(tools) THEN <<>> ELSE <<<<"tools", tools>>>>)
    \o (IF IsUndef(responses) THEN <<>> ELSE <<<<"tool_call_responses", responses>>>>)

RequestChoices ==
  {RequestData("A", Arr(<<Tool(<<GetWeather>>)>>), Undef),
   RequestData("B", Arr(<<Tool(<<GetWeather>>)>>), Undef),
   RequestData("plain", Undef, Undef),
   RequestData("answer", Undef, Arr(<<>>)),
   RequestData("answer", Arr(<<>>), Arr(<<ToolResponse(1)>>))}
    \cup {RequestData("answer", Undef, Arr(<<ToolResponse(id)>>)) : id \in ToolCallIds}

ProxyInit ==
  /\ NoRequests
  /\ heap = <<>>
  /\ input = Undef
  /\ options = ProxyOptions
  /\ phase = "serving"
  /\ out = NoResult
  /\ out2 = NoResult

\* Lines 290-345 and 31-32: a request passes the handler and its body is
\* being read.
Receive ==
  /\ phase = "serving"
  /\ received < MaxRequests
  /\ \E requestData \in RequestChoices \ inflight :
       inflight' = inflight \cup {requestData}
  /\ received' = received + 1
  /\ UNCHANGED <<heap, input, options, phase, out, out2, pendingCalls, reply>>

\* Lines 34-36 and 46-69: handleToolCallResponses
HandleToolCallResponses ==
  /\ phase = "serving"
  /\ \E requestData \in inflight :
       /\ Truthy(Get(requestData, "tool_call_responses"))
       /\ reply' = toolResponsesReply(requestData, pendingCalls,
                     findOriginalToolCall(pendingCalls,
                                          Get(requestData, "tool_call_responses")))
       /\ pendingCalls' = findOriginalToolCall(pendingCalls,
                            Get(requestData, "tool_call_responses")).pendingCalls
       /\ inflight' = inflight \ {requestData}
  /\ UNCHANGED <<heap, input, options, phase, out, out2, received>>

\* Lines 38-40 and 71-103: prepareToolCall.  The id of line 91 is built from
\* the clock and a random number: any id, one in the map included.
PrepareToolCall ==
  /\ phase = "serving"
  /\ \E requestData \in inflight, toolCallId \in ToolCallIds :
       /\ ~Truthy(Get(requestData, "tool_call_responses"))
       /\ Truthy(Get(requestData, "tools"))
       /\ pendingCalls' = Put(pendingCalls, toolCallId,
                              withNormalizedTools(requestData))
       /\ reply' = [code |-> "", request |-> requestData,
                    body |-> withNormalizedTools(requestData),
                    id |-> toolCallId, before |-> pendingCalls]
       /\ inflight' = inflight \ {requestData}
  /\ UNCHANGED <<heap, input, options, phase, out, out2, received>>

\* Lines 42-43: a request with neither key goes to proxyToGemini as it is.
ProxyToGemini ==
  /\ phase = "serving"
  /\ \E requestData \in inflight :
       /\ ~Truthy(Get(requestData, "tool_call_responses"))
       /\ ~Truthy(Get(requestData, "tools"))
       /\ reply' = [code |-> "", request |-> requestData, body |-> requestData,
                    id |-> 0, before |-> pendingCalls]
       /\ inflight' = inflight \ {requestData}
  /\ UNCHANGED <<heap, input, options, phase, out, out2, pendingCalls, received>>

ProxyNext ==
  Receive \/ HandleToolCallResponses \/ PrepareToolCall \/ ProxyToGemini

ProxySpec == ProxyInit /\ [][ProxyNext]_vars

Returned == phase # "ready"

(***************************************************************************)
(* C1.  A circular_reference diagnostic is recorded only for a node that   *)
(* is open on its own ancestor chain: normalizing an acyclic input records *)
(* no circular_reference, and every position of the root that holds a node *)
(* within the depth limit is normalized, not replaced by { type: "object" }*)
(* (the same node under two sibling properties included).                  *)
(***************************************************************************)
C1_CircularOnlyOnTrueCycle ==
  (Returned /\ Acyclic(heap, input.id)) =>
    /\ CountErrors(out.errors, "circular_reference") = 0
    /\ \A i \in 1..Len(Positions(heap, heap[input.id])) :
         LET p == Positions(heap, heap[input.id])[i]
         IN (p.to.k = "obj" /\ options.maxDepth > 1) =>
              Sub(out.schema, p) # Lit(ObjectOnly)

\* The same node under both properties of the root, nothing cyclic: the
\* second position is reported as a circular reference.
C1_SharedSiblingFlagged ==
  /\ phase = "normalized"
  /\ Acyclic(heap, input.id)
  /\ Len(EntriesOf(heap, Get(heap[input.id], "properties"))) = 2
  /\ CountErrors(out.errors, "circular_reference") = 1
  /\ out.errors[1].path = "b"

(***************************************************************************)
(* C2.  When the input is a tree but for one `properties` entry that       *)
(* refers back to the node holding it or to an ancestor, and that entry    *)
(* lies at a depth below maxDepth, the call records exactly one            *)
(* circular_reference, at the path of that entry; the entry becomes        *)
(* { type: "object" }; and every other entry of the same `properties` is   *)
(* normalized as it is on its own.                                         *)
(***************************************************************************)
BackReferenceInProperties ==
  /\ OneBackReference(heap, input.id)
  /\ At(heap, BackReference(heap, input.id)).kw = "properties"

BackReferenceDepth == Level(heap, input.id, BackReference(heap, input.id).from) + 1

BackReferenceHandled ==
  LET r == BackReference(heap, input.id)
      path == PathTo(heap, input.id, r.from)
      context == ContextAt(options, path)
      holder == OutAt(out.schema, path)
      ps == Positions(heap, heap[r.from])
      circular == {i \in 1..Len(out.errors) :
                     out.errors[i].type = "circular_reference"}
  IN /\ Cardinality(circular) = 1
     /\ \A i \in circular :
          out.errors[i].path = pathToString(PositionContext(context, ps[r.i]).path)
     /\ Sub(holder, ps[r.i]) = Lit(ObjectOnly)
     /\ \A i \in 1..Len(ps) :
          (i # r.i /\ ps[i].kw = "properties") =>
            Sub(holder, ps[i])
              = Lit(normalizeNode(heap, ps[i].to, PositionContext(context, ps[i]),
                                  FreshState).node)

RECURSIVE Nested(_, _)
Nested(node, levels) ==
  IF levels = 0 THEN node
  ELSE Nested(EntriesOf(<<>>, Sub(node, Position("properties", "nested", 0, Undef))),
              levels - 1)

C3_DepthLimitedChain ==
  (Returned /\ options.maxDepth < OutDepth(input.e)) =>
    /\ CountErrors(out.errors, "max_depth_exceeded") = 1
    /\ OutDepth(out.schema) <= options.maxDepth
    /\ Nested(out.schema, options.maxDepth) = ObjectOnly

\* A chain of depth 4 cut at maxDepth 2.
C3_ChainCut ==
  /\ phase = "normalized"
  /\ OutDepth(input.e) = 4
  /\ options.maxDepth = 2
  /\ OutDepth(out.schema) = 2
  /\ CountErrors(out.errors, "max_depth_exceeded") = 1

(***************************************************************************)
(* C4.  normalizeSchema returns for every input graph, cyclic ones         *)
(* included: the call on an input not yet normalized has a result, which   *)
(* admits the root; no call admits a node past the guards at a depth of    *)
(* maxDepth or more; and a call admits each arena node at most once, so    *)
(* at most as many nodes as the input has nodes and literal subschemas.    *)
(***************************************************************************)
AdmittedBelow(result, limit) ==
  \A i \in 1..Len(result.admitted) : result.admitted[i] < limit

\* The arena nodes reachable from the root, and their literal subschemas.
Admissible(h, root) ==
  UNION {{[node |-> n, i |-> 0]}
           \cup {[node |-> n, i |-> i] :
                   i \in {j \in 1..Len(Positions(h, h[n])) :
                            Positions(h, h[n])[j].to.k = "lit"}} :
         n \in ReachFrom(h, {root})}

C4_ReturnsWithinDepth ==
  /\ phase = "ready" =>
       LET result == normalizeSchema(heap, input, options)
       IN /\ Len(result.admitted) >= 1
          /\ AdmittedBelow(result, options.maxDepth)
  /\ AdmittedBelow(out, options.maxDepth)
  /\ AdmittedBelow(out2, options.maxDepth)
  /\ Len(out.admitted) <= Cardinality(Admissible(heap, input.id))

\* A cycle that runs through a keyword other than `properties` has been
\* normalized, every node of the arena admitted once.
C4_CycleNormalized ==
  /\ phase = "normalized"
  /\ \E n \in ReachFrom(heap, {input.id}) :
       /\ n \in Descendants(heap, n)
       /\ \E i \in 1..Len(Positions(heap, heap[n])) :
            Positions(heap, heap[n])[i].kw # "properties"
  /\ Len(out.admitted) = MaxNodes
  /\ CountErrors(out.errors, "circular_reference") >= 1

(***************************************************************************)
(* C5.  No guard aborts the traversal of `properties`: the output          *)
(* `properties` of the root has the keys of the input `properties`; an     *)
(* entry a guard rejects (a non-object value, a node at the depth limit, a *)
(* node already visited) is exactly { type: "object" } and has exactly one *)
(* diagnostic at its path; every other entry is normalized to what it is   *)
(* when the rejected entries are absent from the input.                    *)
(***************************************************************************)
RootProperties == EntriesOf(heap, Get(heap[input.id], "properties"))

IsGuardDiagnostic(error) ==
  \/ error.type \in {"max_depth_exceeded", "circular_reference"}
  \/ error.type = "invalid_schema" /\ error.message = "Expected schema object"

RejectedKeys ==
  {out.errors[i].path : i \in {j \in 1..Len(out.errors) :
                                 IsGuardDiagnostic(out.errors[j])}}

WithoutRejected ==
  [i \in DOMAIN heap |->
     IF ObjRef(i) = Get(heap[input.id], "properties")
       THEN SelectSeq(heap[i], LAMBDA e : e[1] \notin RejectedKeys)
       ELSE heap[i]]

C5_GuardsRecoverLocally ==
  (Returned /\ Len(RootProperties) > 0) =>
    LET produced == EntriesOf(<<>>, Get(out.schema, "properties"))
        alone == EntriesOf(<<>>, Get(normalizeSchema(WithoutRejected, input,
                                                     options).schema,
                                     "properties"))
    IN /\ Keys(produced) = Keys(RootProperties)
       /\ \A i \in 1..Len(RootProperties) :
            LET key == RootProperties[i][1]
                value == RootProperties[i][2]
            IN /\ (\/ ~isPlainObject(value)
                   \/ options.maxDepth <= 1
                   \/ value = input) => key \in RejectedKeys
               /\ IF key \in RejectedKeys
                    THEN /\ Get(produced, key) = Lit(ObjectOnly)
                         /\ Cardinality(ErrorsAt(out.errors, key)) = 1
                    ELSE Get(produced, key) = Get(alone, key)

\* The first property is not an object, the second is a node with a child
\* of its own: the first is replaced, the second normalized.
C5_RejectedBesideNormalized ==
  /\ phase = "normalized"
  /\ Len(RootProperties) = 2
  /\ ~isPlainObject(RootProperties[1][2])
  /\ RejectedKeys = {"a"}
  /\ OutDepth(out.schema) >= 2

(***************************************************************************)
(* C6.  In every node of an output, each entry of `required` is a key of   *)
(* that node's `properties`, also when the input node declares `required`  *)
(* and has no `properties`.                                                *)
(***************************************************************************)
RequiredWithinProperties(node) ==
  LET required == Get(node, "required")
      properties == EntriesOf(<<>>, Get(node, "properties"))
  IN IsArray(required) =>
       \A i \in 1..Len(required.a) :
         IsString(required.a[i]) /\ Has(properties, required.a[i].s)

C6_RequiredWithinProperties ==
  Returned => \A node \in AllNodes(out.schema) : RequiredWithinProperties(node)

(***************************************************************************)
(* C7.  With inferRequired on and no `required` declared, a property whose *)
(* input schema has optional: true, or a default, or nullable: true, or a  *)
(* union type is not in the `required` list of its parent.                 *)
(***************************************************************************)
IsOptionalInput(h, schema) ==
  LET e == EntriesOf(h, schema)
      type == Get(e, "type")
  IN \/ IsTrue(Get(e, "optional"))
     \/ ~IsUndef(Get(e, "default"))
     \/ IsTrue(Get(e, "nullable"))
     \/ IsArray(type) /\ Len(type.a) > 1

C7_OptionalNeverInferred ==
  (Returned /\ options.inferRequired /\ IsUndef(Get(input.e, "required"))) =>
    LET properties == EntriesOf(heap, Get(input.e, "properties"))
        required == Get(out.schema, "required")
    IN \A i \in 1..Len(properties) :
         (isPlainObject(properties[i][2]) /\ IsOptionalInput(heap, properties[i][2]))
           => ~typeIncludes(required, properties[i][1])

(***************************************************************************)
(* C8.  A node with nullable: true whose type resolves to T has the output *)
(* type T united with "null", "null" occurring exactly once: a scalar T    *)
(* other than "null" becomes [T, "null"], "null" stays the scalar "null",  *)
(* an array gets "null" appended when it lacks it; and no output node has  *)
(* a `nullable` key.                                                       *)
(***************************************************************************)
\* The input nodes paired with their output nodes: the root and its properties.
NodePairs ==
  LET given == EntriesOf(heap, Get(input.e, "properties"))
      produced == EntriesOf(<<>>, Get(out.schema, "properties"))
  IN {<<input.e, out.schema>>}
       \cup {<<given[i][2].e, Get(produced, given[i][1]).e>> :
               i \in {j \in 1..Len(given) :
                        /\ given[j][2].k = "lit"
                        /\ Get(produced, given[j][1]).k = "lit"}}

ResolvedType(node) ==
  LET declared == normalizeType(Get(node, "type"), RootContext(options), FreshState).type
  IN IF ~IsUndef(declared) THEN declared
     ELSE inferType(cleanUnsupportedKeywords(node, RootContext(options),
                                             FreshState).cleaned)

NullUnion(T, type) ==
  LET names == IF IsArray(type) THEN type.a ELSE <<type>>
  IN /\ Cardinality({i \in 1..Len(names) : names[i] = Str("null")}) = 1
     /\ IF IsString(T)
          THEN type = (IF T = Str("null") THEN T ELSE Arr(<<T, Str("null")>>))
          ELSE /\ IsArray(type)
               /\ IF \E i \in 1..Len(T.a) : T.a[i] = Str("null")
                    THEN type = T
                    ELSE type = Arr(T.a \o <<Str("null")>>)

C8_NullableUnion ==
  Returned =>
    /\ \A pair \in NodePairs :
         (IsTrue(Get(pair[1], "nullable")) /\ ~IsUndef(ResolvedType(pair[1])))
           => NullUnion(ResolvedType(pair[1]), Get(pair[2], "type"))
    /\ \A node \in AllNodes(out.schema) : ~Has(node, "nullable")

\* A nullable property with a union type that lacks "null".
C8_NullAppended ==
  /\ phase = "normalized"
  /\ \E pair \in NodePairs :
       /\ pair[1] # input.e
       /\ IsTrue(Get(pair[1], "nullable"))
       /\ Get(pair[1], "type") = Arr(<<Str("number"), Str("string")>>)
       /\ Get(pair[2], "type") = Arr(<<Str("number"), Str("string"), Str("null")>>)

(***************************************************************************)
(* C9.  When input nodes hold any of $schema, $ref, anyOf, the output      *)
(* holds none of those keys, the warnings are those of the input without   *)
(* the keys plus exactly one per removed key, and the output is that of    *)
(* the input without the keys.                                             *)
(***************************************************************************)
RemovedKeys == {"$schema", "$ref", "anyOf"}

RECURSIVE Strip(_)
Strip(v) ==
  CASE v.k = "lit" ->
         LET kept == SelectSeq(v.e, LAMBDA e : e[1] \notin RemovedKeys)
         IN Lit([i \in 1..Len(kept) |-> <<kept[i][1], Strip(kept[i][2])>>])
    [] v.k = "arr" -> Arr([i \in 1..Len(v.a) |-> Strip(v.a[i])])
    [] OTHER -> v

RECURSIVE NumRemoved(_)
RECURSIVE NumRemovedIn(_)
NumRemovedIn(values) ==
  IF Len(values) = 0 THEN 0
  ELSE NumRemoved(Head(values)) + NumRemovedIn(Tail(values))

NumRemoved(v) ==
  CASE v.k = "lit" ->
         LET kept == SelectSeq(v.e, LAMBDA e : e[1] \notin RemovedKeys)
         IN (Len(v.e) - Len(kept))
              + NumRemovedIn([i \in 1..Len(kept) |-> kept[i][2]])
    [] v.k = "arr" -> NumRemovedIn(v.a)
    [] OTHER -> 0

C9_OneWarningPerRemovedKey ==
  (Returned /\ NumRemoved(input) > 0) =>
    LET bare == normalizeSchema(heap, Strip(input), options)
    IN /\ \A node \in AllNodes(out.schema) : \A key \in RemovedKeys : ~Has(node, key)
       /\ Len(out.warnings) = Len(bare.warnings) + NumRemoved(input)
       /\ out.schema = bare.schema

(***************************************************************************)
(* C10.  Normalizing the schema a call returned, with the same options,    *)
(* returns an equal schema and records no error and no warning.            *)
(***************************************************************************)
C10_Idempotent ==
  phase = "renormalized" =>
    /\ out2.schema = out.schema
    /\ out2.errors = <<>>
    /\ out2.warnings = <<>>

(***************************************************************************)
(* C11.  In every node of every output, `type` is absent, or one name of   *)
(* the seven-name vocabulary, or an array of pairwise-distinct names of    *)
(* the vocabulary, whatever the type came from: a declaration, inference   *)
(* from structure, enum, const or default, the nullable flag, or the       *)
(* forced object/array type.                                               *)
(***************************************************************************)
TypeWellFormed(type) ==
  \/ IsUndef(type)
  \/ IsString(type) /\ type.s \in VALID_TYPES
  \/ /\ IsArray(type)
     /\ \A i \in 1..Len(type.a) : IsString(type.a[i]) /\ type.a[i].s \in VALID_TYPES
     /\ \A i, j \in 1..Len(type.a) : i # j => type.a[i] # type.a[j]

C11_TypeWithinVocabulary ==
  Returned =>
    \A node \in AllNodes(out.schema) \cup AllNodes(out2.schema) :
      TypeWellFormed(Get(node, "type"))

\* A declared type array with no valid member, an enum of a number and a
\* string, and nullable: the inferred union with "null" appended.
C11_InferredUnionEmitted ==
  /\ phase = "normalized"
  /\ Get(input.e, "type") = Arr(<<Str("foo"), Num(1)>>)
  /\ IsTrue(Get(input.e, "nullable"))
  /\ Get(out.schema, "type") = Arr(<<Str("number"), Str("string"), Str("null")>>)

(***************************************************************************)
(* C12.  For a node with `properties` and a declared `required` array, the *)
(* declared entries that are strings naming a key of `properties`, in      *)
(* their order and without repeats, are the output `required` (when any    *)
(* is left), and every other declared entry is dropped with exactly one    *)
(* warning.                                                                *)
(***************************************************************************)
HasPrefix(s, prefix) == Len(s) >= Len(prefix) /\ SubSeq(s, 1, Len(prefix)) = prefix

IsDroppedEntryWarning(warning) ==
  \/ HasPrefix(warning, "Ignored non-string required entry at ")
  \/ HasPrefix(warning, "Removed unknown required key '")

FirstOccurrences(values) ==
  LET firsts == {i \in 1..Len(values) : \A j \in 1..(i - 1) : values[j] # values[i]}
      Nth[n \in 0..Len(values)] ==
        IF n = 0 THEN 0
        ELSE CHOOSE i \in firsts : i > Nth[n - 1] /\ \A j \in firsts : j > Nth[n - 1] => i <= j
  IN [n \in 1..Cardinality(firsts) |-> values[Nth[n]]]

\* The declared entries that are strings naming a key of the properties.
NamedProperties(h, node) ==
  SelectSeq(Get(node, "required").a,
            LAMBDA e : IsString(e) /\ Has(EntriesOf(h, Get(node, "properties")), e.s))

DeclaredRequiredCase ==
  /\ Returned
  /\ isPlainObject(Get(input.e, "properties"))
  /\ IsArray(Get(input.e, "required"))

C12_DeclaredRequiredFiltered ==
  DeclaredRequiredCase =>
    /\ Len(NamedProperties(heap, input.e)) > 0 =>
         Get(out.schema, "required")
           = Arr(FirstOccurrences(NamedProperties(heap, input.e)))
    /\ Cardinality({i \in 1..Len(out.warnings) :
                      IsDroppedEntryWarning(out.warnings[i])})
         = Len(Get(input.e, "required").a) - Len(NamedProperties(heap, input.e))

\* A declared entry that names no property but a member every object
\* inherits is kept, and nothing is recorded for it.
C12_InheritedNameKept ==
  /\ DeclaredRequiredCase
  /\ Get(input.e, "required") = Arr(<<Str("toString")>>)
  /\ ~Has(EntriesOf(heap, Get(input.e, "properties")), "toString")
  /\ Get(out.schema, "required") = Arr(<<Str("toString")>>)
  /\ \A i \in 1..Len(out.warnings) : ~IsDroppedEntryWarning(out.warnings[i])

(***************************************************************************)
(* C13.  With inferRequired on and a declared `required` that leaves no    *)
(* entry (absent, not an array, or holding only entries that are dropped), *)
(* the `required` of a node with properties is, in property order, the     *)
(* keys of the properties whose normalized schema has one non-null type    *)
(* name, no default and no optional flag; it is absent when there is no    *)
(* such property.  Nullable, union-typed and type-less properties are      *)
(* never in it.                                                            *)
(***************************************************************************)
\* No declared entry is a string naming a property or a member that every
\* object inherits.
NoUsableRequired(h, node) ==
  \/ ~IsArray(Get(node, "required"))
  \/ \A i \in 1..Len(Get(node, "required").a) :
       LET entry == Get(node, "required").a[i]
       IN ~(/\ IsString(entry)
            /\ \/ Has(EntriesOf(h, Get(node, "properties")), entry.s)
               \/ entry.s \in ObjectPrototypeKeys)

SingleNonNullType(node) ==
  /\ IsString(Get(node, "type"))
  /\ Get(node, "type") # Str("null")
  /\ IsUndef(Get(node, "default"))
  /\ ~IsTrue(Get(node, "optional"))

\* The keys of the output properties to infer, in property order.
ExpectedInferred(node) ==
  LET chosen == SelectSeq(EntriesOf(<<>>, Get(node, "properties")),
                          LAMBDA e : SingleNonNullType(e[2].e))
  IN [i \in 1..Len(chosen) |-> Str(chosen[i][1])]

InferenceCase ==
  /\ Returned
  /\ options.inferRequired
  /\ isPlainObject(Get(input.e, "properties"))
  /\ NoUsableRequired(heap, input.e)

NonBlank(value) == IsString(value) /\ Trim(value.s) # ""

IsDescribed(node) ==
  IsString(Get(node, "description")) /\ Get(node, "description").s # ""

C14_DescriptionFromHint ==
  Returned =>
    \A pair \in NodePairs :
      IF NonBlank(Get(pair[1], "description"))
        THEN Get(pair[2], "description") = Str(Trim(Get(pair[1], "description").s))
      ELSE IF /\ options.generateDescriptions
              /\ (pair[1] # input.e \/ NonBlank(Get(pair[1], "title")))
        THEN IsDescribed(pair[2])
      ELSE ~Has(pair[2], "description")

\* The property userName of type string is described by its key, and the
\* root, which has no title, is not described.
C14_PropertyDescribed ==
  /\ phase = "normalized"
  /\ options.generateDescriptions
  /\ Get(input.e, "properties") = Object(<<<<"userName", TypeOnly("string")>>>>)
  /\ Get(Get(out.schema, "properties").e, "userName")
       = Lit(<<<<"type", Str("string")>>,
               <<"description", Str("User Name (string).")>>>>)
  /\ ~Has(out.schema, "description")

\* The statement as given: with generateDescriptions on, every node without
\* a non-blank description of its own is described in the output, the root
\* included.
C14_EveryNodeDescribed ==
  (Returned /\ options.generateDescriptions) =>
    \A pair \in NodePairs :
      ~NonBlank(Get(pair[1], "description")) => IsDescribed(pair[2])

(***************************************************************************)
(* Tools: the declarations of the payload and of the result, by position   *)
(* (tool i, declaration j, both counted from 1).                           *)
(***************************************************************************)
ToolsReturned == phase \in {"tools", "alone"}

DeclarationsOf(h, tool) ==
  IF isPlainObject(tool) /\ IsArray(Get(Entries(h, tool), "function_declarations"))
    THEN Get(Entries(h, tool), "function_declarations").a
    ELSE <<>>

DeclarationPositions ==
  IF IsArray(input)
    THEN {p \in (1..Len(input.a)) \X (1..(MaxDecls + 1)) :
            p[2] <= Len(DeclarationsOf(heap, input.a[p[1]]))}
    ELSE {}

InDeclaration(p) == DeclarationsOf(heap, input.a[p[1]])[p[2]]

OutDeclaration(p) == DeclarationsOf(<<>>, out.tools[p[1]])[p[2]]

ParametersPrefix(p) ==
  "tools[" \o NumStr(p[1] - 1) \o "].function_declarations[" \o NumStr(p[2] - 1)
    \o "].parameters"

\* The errors of the result that lie under the parameters of declaration p.
ParameterErrors(p) ==
  SelectSeq(out.errors, LAMBDA e : HasPrefix(e.path, ParametersPrefix(p)))

HasParameters(p) ==
  isPlainObject(InDeclaration(p)) /\ Has(Entries(heap, InDeclaration(p)), "parameters")

(***************************************************************************)
(* C15.  Every top-level call starts from a visited set and diagnostics of *)
(* its own.  In normalizeTools a schema object that is the `parameters` of *)
(* several declarations is normalized for each of them, and no             *)
(* circular_reference is recorded; a normalizeSchema call made on that     *)
(* object after normalizeTools returned gives the same schema and as many  *)
(* errors as each of those declarations got.                               *)
(***************************************************************************)
SharingPositions ==
  {p \in DeclarationPositions :
     HasParameters(p) /\ Get(Entries(heap, InDeclaration(p)), "parameters") = ObjRef(1)}

C15_FreshContextPerCall ==
  /\ ToolsReturned => CountErrors(out.errors, "circular_reference") = 0
  /\ phase = "alone" =>
       /\ out2.errors = normalizeSchema(heap, ObjRef(1), options).errors
       /\ CountErrors(out2.errors, "circular_reference") = 0
       /\ \A p \in SharingPositions :
            /\ Get(OutDeclaration(p).e, "parameters") = Lit(out2.schema)
            /\ Len(ParameterErrors(p)) = Len(out2.errors)

\* Two declarations share the parameters of Scenario C; both are
\* normalized, and so is the object when normalizeSchema is called on it
\* afterwards.
C15_SharedParametersNormalized ==
  /\ phase = "alone"
  /\ Cardinality(SharingPositions) >= 2
  /\ options.maxDepth = DefaultMaxDepth
  /\ out.errors = <<>>
  /\ Get(out2.schema, "required") = Arr(<<Str("a")>>)
  /\ \A p \in SharingPositions :
       Get(Get(OutDeclaration(p).e, "parameters").e, "required") = Arr(<<Str("a")>>)

(***************************************************************************)
(* C16.  For an array payload normalizeTools returns as many tools, in the *)
(* same order.  A tool at index i that is no object, and a declaration at  *)
(* index j of its function_declarations that is no object, is returned as  *)
(* it came, with exactly one diagnostic at tools[i], respectively at       *)
(* tools[i].function_declarations[j], of type invalid_schema; every other  *)
(* tool keeps its keys and gets as many declarations as it had, and every  *)
(* other declaration is normalized: it has a string name and its           *)
(* parameters are those normalizeSchema returns.                           *)
(***************************************************************************)
ToolErrorsAt(path) == SelectSeq(out.errors, LAMBDA e : e.path = path)

OneInvalidSchemaAt(path) ==
  /\ Len(ToolErrorsAt(path)) = 1
  /\ ToolErrorsAt(path)[1].type = "invalid_schema"

EntryPath(i) == "tools[" \o NumStr(i - 1) \o "]"

DeclarationEntryPath(p) ==
  EntryPath(p[1]) \o ".function_declarations[" \o NumStr(p[2] - 1) \o "]"

KeysOf(entries) == [k \in 1..Len(entries) |-> entries[k][1]]

ToolKept(i) ==
  /\ out.tools[i].k = "lit"
  /\ KeysOf(out.tools[i].e) = KeysOf(Entries(heap, input.a[i]))
  /\ \A k \in 1..Len(out.tools[i].e) :
       out.tools[i].e[k][1] # "function_declarations"
         => out.tools[i].e[k] = Entries(heap, input.a[i])[k]
  /\ Len(DeclarationsOf(<<>>, out.tools[i])) = Len(DeclarationsOf(heap, input.a[i]))
  /\ Len(ToolErrorsAt(EntryPath(i))) = 0

DeclarationNormalized(p) ==
  /\ OutDeclaration(p).k = "lit"
  /\ IsString(Get(OutDeclaration(p).e, "name"))
  /\ HasParameters(p) =>
       Get(OutDeclaration(p).e, "parameters")
         = Lit(normalizeSchema(heap, Get(Entries(heap, InDeclaration(p)), "parameters"),
                               options).schema)
  /\ Len(ToolErrorsAt(DeclarationEntryPath(p))) = 0

C16_EntriesKeptInPlace ==
  (ToolsReturned /\ IsArray(input)) =>
    /\ Len(out.tools) = Len(input.a)
    /\ \A i \in 1..Len(input.a) :
         IF isPlainObject(input.a[i])
           THEN ToolKept(i)
           ELSE out.tools[i] = input.a[i] /\ OneInvalidSchemaAt(EntryPath(i))
    /\ \A p \in DeclarationPositions :
         IF isPlainObject(InDeclaration(p))
           THEN DeclarationNormalized(p)
           ELSE /\ OutDeclaration(p) = InDeclaration(p)
                /\ OneInvalidSchemaAt(DeclarationEntryPath(p))

\* A string among the tools and a number among the declarations of the tool
\* after it: both come back in place, each with its diagnostic, and the
\* declaration after the number is normalized.
C16_InvalidEntriesPassedThrough ==
  /\ phase = "tools"
  /\ IsArray(input) /\ Len(input.a) = 2
  /\ input.a[1] = Str("oops") /\ out.tools[1] = Str("oops")
  /\ <<2, 2>> \in DeclarationPositions
  /\ InDeclaration(<<2, 1>>) = Num(5) /\ OutDeclaration(<<2, 1>>) = Num(5)
  /\ isPlainObject(InDeclaration(<<2, 2>>)) /\ HasParameters(<<2, 2>>)
  /\ OneInvalidSchemaAt("tools[0]")
  /\ OneInvalidSchemaAt("tools[1].function_declarations[0]")

(***************************************************************************)
(* C17.  The errors normalizeTools returns for the parameters of           *)
(* declaration j of tool i are the errors normalizeSchema returns for      *)
(* those parameters alone, as many and in the same order, each with a path *)
(* that starts with tools[i].function_declarations[j].parameters and is    *)
(* that prefix for an error at the root; every error of the result is      *)
(* that of one entry or lies under the parameters of one declaration.      *)
(***************************************************************************)
ParametersAlone(p) ==
  normalizeSchema(heap, Get(Entries(heap, InDeclaration(p)), "parameters"), options)

PrefixedAs(error, alone, prefix) ==
  /\ error.type = alone.type
  /\ error.message = alone.message
  /\ HasPrefix(error.path, prefix)
  /\ alone.path = "root" => error.path = prefix
  /\ alone.path # "root" => error.path = prefix \o "." \o alone.path

ErrorOwners(e) ==
  {p \in DeclarationPositions : HasParameters(p) /\ HasPrefix(e.path, ParametersPrefix(p))}

IsEntryError(e) ==
  \/ \E i \in 1..Len(input.a) : e.path = EntryPath(i)
  \/ \E p \in DeclarationPositions : e.path = DeclarationEntryPath(p)

C17_ParameterErrorsPrefixed ==
  (ToolsReturned /\ IsArray(input)) =>
    /\ \A p \in DeclarationPositions :
         IF HasParameters(p)
           THEN /\ Len(ParameterErrors(p)) = Len(ParametersAlone(p).errors)
                /\ \A k \in 1..Len(ParameterErrors(p)) :
                     PrefixedAs(ParameterErrors(p)[k], ParametersAlone(p).errors[k],
                                ParametersPrefix(p))
           ELSE Len(ParameterErrors(p)) = 0
    /\ \A k \in 1..Len(out.errors) :
         IF IsEntryError(out.errors[k])
           THEN ErrorOwners(out.errors[k]) = {}
           ELSE Cardinality(ErrorOwners(out.errors[k])) = 1

\* The second declaration of the second tool has parameters with a property
\* that is no schema and one of an unknown type: the two errors carry the
\* path of that declaration, while the first declaration has none.
C17_ErrorsOfSecondDeclaration ==
  /\ phase = "tools"
  /\ IsArray(input) /\ Len(input.a) = 2
  /\ <<2, 2>> \in DeclarationPositions
  /\ HasParameters(<<2, 1>>) /\ HasParameters(<<2, 2>>)
  /\ options.maxDepth = DefaultMaxDepth
  /\ Len(ParameterErrors(<<2, 1>>)) = 0
  /\ Len(ParameterErrors(<<2, 2>>)) >= 2
  /\ \E k \in 1..Len(out.errors) :
       /\ out.errors[k].path = "tools[1].function_declarations[1].parameters.b"
       /\ out.errors[k].type = "validation_error"

(***************************************************************************)
(* C18.  Every declaration that is an object comes back with a string      *)
(* name, its own when that is a string and function_<j> otherwise; with    *)
(* generateDescriptions it comes back with a description that is not       *)
(* empty, its own trimmed when that holds more than blanks and "Execute    *)
(* <Humanized Name>." otherwise, and without generateDescriptions with the *)
(* description it had; the `required` of its parameters is the list of the *)
(* properties of a single type other than null whenever none is declared   *)
(* (Scenario C: ["a"]).                                                    *)
(***************************************************************************)
ExpectedName(p) ==
  IF IsString(Get(Entries(heap, InDeclaration(p)), "name"))
    THEN Get(Entries(heap, InDeclaration(p)), "name")
    ELSE Str("function_" \o NumStr(p[2] - 1))

OwnDescription(p) ==
  IF IsString(Get(Entries(heap, InDeclaration(p)), "description"))
    THEN Trim(Get(Entries(heap, InDeclaration(p)), "description").s)
    ELSE ""

ExpectedDescription(p) ==
  IF OwnDescription(p) # ""
    THEN Str(OwnDescription(p))
    ELSE Str("Execute " \o humanizeName(ExpectedName(p).s) \o ".")

OutParameters(p) == Get(OutDeclaration(p).e, "parameters")

InParameters(p) == Get(Entries(heap, InDeclaration(p)), "parameters")

ParametersInferred(p) ==
  (/\ options.inferRequired
   /\ isPlainObject(Get(EntriesOf(heap, InParameters(p)), "properties"))
   /\ NoUsableRequired(heap, EntriesOf(heap, InParameters(p))))
    => IF Len(ExpectedInferred(OutParameters(p).e)) > 0
         THEN Get(OutParameters(p).e, "required")
                = Arr(ExpectedInferred(OutParameters(p).e))
         ELSE ~Has(OutParameters(p).e, "required")

C18_DeclarationCompleted ==
  (ToolsReturned /\ IsArray(input)) =>
    \A p \in DeclarationPositions :
      isPlainObject(InDeclaration(p)) =>
        /\ Get(OutDeclaration(p).e, "name") = ExpectedName(p)
        /\ IF options.generateDescriptions
             THEN /\ Get(OutDeclaration(p).e, "description") = ExpectedDescription(p)
                  /\ NonBlank(Get(OutDeclaration(p).e, "description"))
             ELSE Get(OutDeclaration(p).e, "description")
                    = Get(Entries(heap, InDeclaration(p)), "description")
        /\ HasParameters(p) => ParametersInferred(p)

\* Scenario C: one tool with the declaration x, whose parameters are an
\* object with the number property a.
C18_ScenarioC ==
  /\ phase = "tools"
  /\ options.generateDescriptions /\ options.maxDepth = DefaultMaxDepth
  /\ input = Arr(<<Tool(<<Declaration(<<<<"name", Str("x")>>,
                                        <<"parameters", ObjRef(1)>>>>)>>)>>)
  /\ heap[1] = <<<<"type", Str("object")>>,
                 <<"properties", Object(<<<<"a", TypeOnly("number")>>>>)>>>>
  /\ Get(OutDeclaration(<<1, 1>>).e, "name") = Str("x")
  /\ Get(OutDeclaration(<<1, 1>>).e, "description") = Str("Execute X.")
  /\ Get(OutParameters(<<1, 1>>).e, "required") = Arr(<<Str("a")>>)
  /\ out.errors = <<>>

\* A declaration without a string name at index 1 is named function_1 and
\* described from that name; snake_case is described as "Snake case".
C18_NameSynthesized ==
  /\ phase = "tools"
  /\ options.generateDescriptions
  /\ \E p \in DeclarationPositions :
       /\ p[2] = 2
       /\ isPlainObject(InDeclaration(p))
       /\ Get(Entries(heap, InDeclaration(p)), "name") = Num(7)
       /\ Get(OutDeclaration(p).e, "name") = Str("function_1")
       /\ Get(OutDeclaration(p).e, "description") = Str("Execute Function 1.")
  /\ \E p \in DeclarationPositions :
       /\ isPlainObject(InDeclaration(p))
       /\ Get(Entries(heap, InDeclaration(p)), "name") = Str("snake_case")
       /\ Get(OutDeclaration(p).e, "description") = Str("Execute Snake case.")

(***************************************************************************)
(* C19.  For a payload that is no array normalizeTools returns no tools,   *)
(* one error of type invalid_schema and no warnings, and it normalizes     *)
(* nothing the payload holds: no object is visited, and no diagnostic of a *)
(* nested schema is among the errors.                                      *)
(***************************************************************************)
C19_NonArrayPayloadRejected ==
  (ToolsReturned /\ ~IsArray(input)) =>
    /\ out.tools = <<>>
    /\ Len(out.errors) = 1
    /\ out.errors[1].type = "invalid_schema"
    /\ out.errors[1].path = "tools"
    /\ out.warnings = <<>>
    /\ out.seen = {}

\* The payload is one tool object, not wrapped in an array, whose
\* declaration has parameters that would give diagnostics of their own.
C19_ToolObjectRejected ==
  /\ phase = "tools"
  /\ isPlainObject(input)
  /\ \E j \in 1..Len(DeclarationsOf(heap, input)) :
       /\ isPlainObject(DeclarationsOf(heap, input)[j])
       /\ Get(Entries(heap, DeclarationsOf(heap, input)[j]), "parameters") = ObjRef(2)
  /\ Len(normalizeSchema(heap, ObjRef(2), options).errors) > 0
  /\ Len(out.errors) = 1
  /\ out.tools = <<>>

(***************************************************************************)
(* C20.  validateNormalizedSchema, which writes nothing to its argument,    *)
(* returns one validation_error for every entry of the declared type,      *)
(* scalar or member of an array, that is no name of the vocabulary, and    *)
(* one for every entry of `required` that is no key of `properties`, also  *)
(* when `properties` is absent; it returns nothing else, so the list is    *)
(* empty when there is no such entry.                                      *)
(***************************************************************************)
Validated == phase = "validated" /\ isPlainObject(input)

TypeViolations(schema) ==
  IF IsUndef(Get(schema, "type")) THEN 0
  ELSE LET entries == IF IsArray(Get(schema, "type")) THEN Get(schema, "type").a
                      ELSE <<Get(schema, "type")>>
       IN Cardinality({k \in 1..Len(entries) :
                         ~(IsString(entries[k]) /\ entries[k].s \in VALID_TYPES)})

OwnKeys(h, schema) ==
  {EntriesOf(h, Get(schema, "properties"))[k][1] :
     k \in 1..Len(EntriesOf(h, Get(schema, "properties")))}

RequiredViolations(h, schema) ==
  IF ~IsArray(Get(schema, "required")) THEN 0
  ELSE Cardinality({k \in 1..Len(Get(schema, "required").a) :
                      ~(/\ IsString(Get(schema, "required").a[k])
                        /\ Get(schema, "required").a[k].s \in OwnKeys(h, schema))})

C20_OneErrorPerViolation ==
  Validated =>
    /\ \A k \in 1..Len(out.errors) : out.errors[k].type = "validation_error"
    /\ Len(out.errors) = TypeViolations(Entries(heap, input))
                           + RequiredViolations(heap, Entries(heap, input))

\* { type: "object", required: ["id"] }: there are no properties, so "id" is
\* no key of them, and yet nothing is reported.
C20_RequiredWithoutProperties ==
  /\ Validated
  /\ Entries(heap, input) = <<<<"type", Str("object")>>, <<"required", Arr(<<Str("id")>>)>>>>
  /\ out.errors = <<>>

(***************************************************************************)
(* C21.  normalizeNode tries its guards in the order non-object, depth,    *)
(* cycle, and the first that fires records the only diagnostic of the      *)
(* rejected node: no path carries two guard diagnostics; a value that is   *)
(* no object is reported as invalid_schema and nothing else, also at depth *)
(* maxDepth; a circular_reference is never recorded at depth maxDepth or   *)
(* below it, so a back-reference met there is reported as                  *)
(* max_depth_exceeded only; and the visited set holds admitted nodes only, *)
(* none that is reachable at depth maxDepth or below it alone.             *)
(***************************************************************************)
GuardDiagnosticsAt(path) ==
  SelectSeq(out.errors, LAMBDA e : IsGuardDiagnostic(e) /\ e.path = path)

\* The number of segments of a path as pathToString prints it.
RECURSIVE Dots(_)
Dots(s) ==
  IF Len(s) = 0 THEN 0
  ELSE (IF Char(s, 1) = "." THEN 1 ELSE 0) + Dots(SubSeq(s, 2, Len(s)))

PathDepth(path) == IF path = "root" THEN 0 ELSE Dots(path) + 1

BackReferencePath ==
  LET r == BackReference(heap, input.id)
  IN pathToString(
       PositionContext(ContextAt(options, PathTo(heap, input.id, r.from)),
                       At(heap, r)).path)

NonObjectProperties ==
  {j \in 1..Len(EntriesOf(heap, Get(heap[input.id], "properties"))) :
     ~isPlainObject(EntriesOf(heap, Get(heap[input.id], "properties"))[j][2])}

NonObjectPath(j) == EntriesOf(heap, Get(heap[input.id], "properties"))[j][1]

C21_GuardsInOrder ==
  phase = "normalized" =>
    /\ \A k \in 1..Len(out.errors) :
         /\ Len(GuardDiagnosticsAt(out.errors[k].path)) <= 1
         /\ out.errors[k].type = "circular_reference"
              => PathDepth(out.errors[k].path) < options.maxDepth
         /\ out.errors[k].type = "max_depth_exceeded"
              => PathDepth(out.errors[k].path) = options.maxDepth
    /\ \A j \in NonObjectProperties :
         /\ Cardinality(ErrorsAt(out.errors, NonObjectPath(j))) = 1
         /\ \A k \in ErrorsAt(out.errors, NonObjectPath(j)) :
              out.errors[k].type = "invalid_schema"
    /\ (OneBackReference(heap, input.id) /\ BackReferenceDepth = options.maxDepth)
         => /\ CountErrors(out.errors, "circular_reference") = 0
            /\ Cardinality(ErrorsAt(out.errors, BackReferencePath)) = 1
            /\ \A k \in ErrorsAt(out.errors, BackReferencePath) :
                 out.errors[k].type = "max_depth_exceeded"
    /\ topLevelCall(heap, input, options, {}).seen
         \subseteq {n \in ReachFrom(heap, {input.id}) :
                      Level(heap, input.id, n) < options.maxDepth}
    /\ Cardinality(topLevelCall(heap, input, options, {}).seen) <= Len(out.admitted)

\* A node two levels down refers back to the root with maxDepth 2, next to a
\* root property that is no object: one max_depth_exceeded, one
\* invalid_schema, and the root and its child are the visited set.
C21_BackReferenceAtMaxDepth ==
  /\ phase = "normalized"
  /\ OneBackReference(heap, input.id)
  /\ BackReferenceDepth = 2 /\ options.maxDepth = 2
  /\ NonObjectProperties # {}
  /\ CountErrors(out.errors, "max_depth_exceeded") = 1
  /\ CountErrors(out.errors, "circular_reference") = 0
  /\ CountErrors(out.errors, "invalid_schema") >= 1
  /\ Cardinality(topLevelCall(heap, input, options, {}).seen) = 2

\* A non-object value at depth 1 with maxDepth 1.
C21_NonObjectAtMaxDepth ==
  /\ phase = "normalized"
  /\ options.maxDepth = 1
  /\ NonObjectProperties # {}
  /\ CountErrors(out.errors, "max_depth_exceeded") = 0

(***************************************************************************)
(* C22.  The constraint keywords of an output node are those of its type:  *)
(* pattern, format, minLength and maxLength only next to a type that       *)
(* includes string; minimum, maximum, exclusiveMinimum, exclusiveMaximum   *)
(* and multipleOf only next to number or integer; items, minItems,         *)
(* maxItems, uniqueItems and contains only next to array; properties,      *)
(* patternProperties, additionalProperties, minProperties and              *)
(* maxProperties only next to object.                                      *)
(***************************************************************************)
StringKeywords == {"pattern", "format", "minLength", "maxLength"}

NumericKeywords ==
  {"minimum", "maximum", "exclusiveMinimum", "exclusiveMaximum", "multipleOf"}

ArrayKeywords == {"items", "minItems", "maxItems", "uniqueItems", "contains"}

ObjectKeywords ==
  {"properties", "patternProperties", "additionalProperties", "minProperties",
   "maxProperties"}

HasAny(node, keys) == \E key \in keys : Has(node, key)

GatedByType(node) ==
  /\ HasAny(node, StringKeywords) => typeIncludes(Get(node, "type"), "string")
  /\ HasAny(node, NumericKeywords)
       => \/ typeIncludes(Get(node, "type"), "number")
          \/ typeIncludes(Get(node, "type"), "integer")
  /\ HasAny(node, ArrayKeywords) => typeIncludes(Get(node, "type"), "array")
  /\ HasAny(node, ObjectKeywords) => typeIncludes(Get(node, "type"), "object")

C22_ConstraintsGatedByType ==
  Returned => \A node \in AllNodes(out.schema) : GatedByType(node)

\* { type: "number", pattern: "^a", minLength: 2 } keeps both string
\* keywords beside the type number.
C22_PatternBesideNumber ==
  /\ phase = "normalized"
  /\ input = Object(<<<<"type", Str("number")>>, <<"pattern", Str("^a")>>,
                      <<"minLength", Num(2)>>>>)
  /\ out.schema = <<<<"type", Str("number")>>, <<"pattern", Str("^a")>>,
                    <<"minLength", Num(2)>>>>

(***************************************************************************)
(* C23.  A `type` given as an array resolves to its entries that are       *)
(* vocabulary names, first occurrences in their order: the list when two   *)
(* or more remain, the name when one remains, and the type inferred from   *)
(* the other keywords when none remains; and every entry dropped because   *)
(* it is no vocabulary name produces a warning.                            *)
(***************************************************************************)
VocabularyEntries(type) ==
  FirstOccurrences(SelectSeq(type.a, LAMBDA e : IsString(e) /\ e.s \in VALID_TYPES))

NumDroppedEntries(type) ==
  Cardinality({i \in 1..Len(type.a) :
                 ~(IsString(type.a[i]) /\ type.a[i].s \in VALID_TYPES)})

ExpectedArrayType(node) ==
  LET kept == VocabularyEntries(Get(node, "type"))
  IN IF Len(kept) >= 2 THEN Arr(kept)
     ELSE IF Len(kept) = 1 THEN kept[1]
     ELSE inferType(node)

IsKeywordWarning(warning) == HasPrefix(warning, "Removed unsupported keyword '")

ArrayTypePairs ==
  {pair \in NodePairs :
     IsArray(Get(pair[1], "type")) /\ ~IsTrue(Get(pair[1], "nullable"))}

C23_ArrayTypeResolved ==
  Returned =>
    \A pair \in ArrayTypePairs :
      /\ Get(pair[2], "type") = ExpectedArrayType(pair[1])
      /\ Len(SelectSeq(out.warnings, LAMBDA w : ~IsKeywordWarning(w)))
           >= NumDroppedEntries(Get(pair[1], "type"))

\* { type: ["null", "foo"] }: the entry "foo" is dropped and the type is
\* "null", with no warning at all.
C23_EntryDroppedSilently ==
  /\ phase = "normalized"
  /\ input = Object(<<<<"type", Arr(<<Str("null"), Str("foo")>>)>>>>)
  /\ Get(out.schema, "type") = Str("null")
  /\ out.warnings = <<>>
  /\ out.errors = <<>>

(***************************************************************************)
(* C24.  A declared `required` comes before the inferred one: when an      *)
(* entry of the declared list is left after filtering (a string that names *)
(* a property), the output `required` is the filtered list and nothing     *)
(* inferred is added; when none is left, or none is declared, the output   *)
(* takes the inferred list with inferRequired and has no `required`        *)
(* without it.                                                             *)
(***************************************************************************)
FilteredRequired(h, node) ==
  IF IsArray(Get(node, "required"))
    THEN FirstOccurrences(NamedProperties(h, node))
    ELSE <<>>

RequiredAsInferred(node) ==
  IF Len(ExpectedInferred(node)) > 0
    THEN Get(node, "required") = Arr(ExpectedInferred(node))
    ELSE ~Has(node, "required")

DeclaredBeforeInferred(h, given, produced) ==
  IF Len(FilteredRequired(h, given)) > 0
    THEN Get(produced, "required") = Arr(FilteredRequired(h, given))
  ELSE IF options.inferRequired
    THEN RequiredAsInferred(produced)
  ELSE ~Has(produced, "required")

C24_DeclaredBeforeInferred ==
  Returned => DeclaredBeforeInferred(heap, input.e, out.schema)

\* { type: "object", required: ["id"] } with inferRequired off: no declared
\* entry names a property, and the output still has required: ["id"].
C24_UnfilteredListKept ==
  /\ phase = "normalized"
  /\ ~options.inferRequired
  /\ input = Object(<<<<"type", Str("object")>>, <<"required", Arr(<<Str("id")>>)>>>>)
  /\ Get(out.schema, "required") = Arr(<<Str("id")>>)

(***************************************************************************)
(* C25.  The cycle guard knows a node by its identity, not by its          *)
(* contents: in an input where every node is held at one place only, nodes *)
(* that are distinct objects with the same contents are all normalized     *)
(* when they lie above depth maxDepth, and no circular_reference is        *)
(* recorded; where one reference points back, a node with the contents of  *)
(* its ancestor is normalized all the same, and the only                   *)
(* circular_reference is that of the reference pointing back.              *)
(***************************************************************************)
IsTree(h, root) ==
  /\ Acyclic(h, root)
  /\ Cardinality(References(h, root)) = Cardinality(ReachFrom(h, {root})) - 1

Twins(h, root) ==
  {pair \in ReachFrom(h, {root}) \X ReachFrom(h, {root}) :
     pair[1] # pair[2] /\ h[pair[1]] = h[pair[2]]}

C25_IdentityNotContents ==
  /\ (phase = "normalized" /\ IsTree(heap, input.id)) =>
       CountErrors(out.errors, "circular_reference") = 0
  /\ (phase = "normalized" /\ OneBackReference(heap, input.id)) =>
       /\ CountErrors(out.errors, "circular_reference") <= 1
       /\ \A k \in 1..Len(out.errors) :
            out.errors[k].type = "circular_reference"
              => out.errors[k].path = BackReferencePath
  /\ (phase = "normalized"
      /\ (IsTree(heap, input.id) \/ OneBackReference(heap, input.id))) =>
       \A pair \in Twins(heap, input.id) :
         Level(heap, input.id, pair[1]) < options.maxDepth
           => pair[1] \in topLevelCall(heap, input, options, {}).seen

\* The two properties of the root hold two objects with the same contents:
\* both are normalized and nothing is reported.
C25_TwinSiblingsNormalized ==
  /\ phase = "normalized"
  /\ IsTree(heap, input.id)
  /\ <<2, 3>> \in Twins(heap, input.id)
  /\ Get(heap[MaxNodes + 1], "a") = ObjRef(2)
  /\ Get(heap[MaxNodes + 1], "b") = ObjRef(3)
  /\ options.maxDepth > 1
  /\ out.errors = <<>>
  /\ Len(out.admitted) = 3

\* Node 2 holds node 3 and node 3 holds itself, so the two have the same
\* contents: node 3 is normalized below its ancestor, and the one
\* diagnostic is that of the reference it holds to itself.
C25_TwinDescendantNormalized ==
  /\ phase = "normalized"
  /\ OneBackReference(heap, input.id)
  /\ <<2, 3>> \in Twins(heap, input.id)
  /\ 3 \in Children(heap, 2) /\ 3 \in Children(heap, 3)
  /\ options.maxDepth = MaxDepthOpt
  /\ 3 \in topLevelCall(heap, input, options, {}).seen
  /\ Len(out.errors) = 1
  /\ out.errors[1].path = BackReferencePath

(***************************************************************************)
(* C26.  normalizeSchema and normalizeTools leave their input unchanged:   *)
(* after a call the objects of the arena, which are all the objects the    *)
(* input reaches, hold what they held before it, and the call wrote to     *)
(* none of them.  The unsupported keywords and `nullable` are removed from *)
(* a copy of the node, and the name, the description, the parameters and   *)
(* the declarations are assigned to copies of the tool and the declaration.*)
(***************************************************************************)
C26_InputUnchanged ==
  /\ heap = ToolsHeap
  /\ ToolsReturned => out.written = {}
  /\ phase = "alone" => out2.written = {}

\* A declaration whose parameters are the arena object that holds `nullable`
\* and an unsupported keyword was normalized: the result has neither, and
\* the arena object has both.
C26_NullableRemovedFromCopy ==
  /\ phase = "tools"
  /\ \E p \in DeclarationPositions :
       /\ isPlainObject(InDeclaration(p))
       /\ InParameters(p) = ObjRef(2)
       /\ Get(OutParameters(p).e, "type") = Arr(<<Str("object"), Str("null")>>)
       /\ ~Has(OutParameters(p).e, "nullable")
       /\ ~Has(OutParameters(p).e, "$schema")
  /\ Get(heap[2], "nullable") = Bool(TRUE)
  /\ Has(heap[2], "$schema")

\* A tool that is an object of the arena was normalized: its declarations
\* were replaced in the result, and the arena object holds the ones it had.
C26_ToolCopied ==
  /\ phase = "tools"
  /\ \E i \in 1..Len(input.a) :
       /\ input.a[i] = ObjRef(3)
       /\ Get(out.tools[i].e, "function_declarations")
            # Get(heap[3], "function_declarations")

(***************************************************************************)
(* C27.  Every key of every node of the output schema is one of the keys   *)
(* normalizeNode assigns: a key of the input that is none of them          *)
(* (default, optional, examples, $ref, anyOf, nullable, ...) is in no      *)
(* output node, whether its removal was warned of or not.                  *)
(***************************************************************************)
OutputKeys ==
  {"type", "title", "description", "enum", "const", "pattern", "format",
   "minLength", "maxLength", "minimum", "maximum", "exclusiveMinimum",
   "exclusiveMaximum", "multipleOf", "items", "minItems", "maxItems",
   "uniqueItems", "contains", "properties", "patternProperties",
   "additionalProperties", "minProperties", "maxProperties", "required"}

OnlyOutputKeys(schema) ==
  \A node \in AllNodes(schema) : \A i \in 1..Len(node) : node[i][1] \in OutputKeys

C27_OnlyOutputKeys ==
  /\ Returned => OnlyOutputKeys(out.schema)
  /\ phase = "renormalized" => OnlyOutputKeys(out2.schema)

\* A property holds `nullable` and `anyOf`: nothing is warned of, and the
\* output property has neither.
C27_DroppedWithoutWarning ==
  /\ phase = "normalized"
  /\ isPlainObject(Get(input.e, "properties"))
  /\ \E pair \in NodePairs :
       /\ pair[1] # input.e
       /\ Has(pair[1], "nullable") /\ Has(pair[1], "anyOf")
       /\ Has(pair[2], "type")
       /\ ~Has(pair[2], "nullable") /\ ~Has(pair[2], "anyOf")
  /\ out.warnings = <<>>

\* The root holds `$id`, `examples` and `deprecated`: the removal of the
\* first and the last is warned of, and the output has none of the three.
C27_DroppedWithWarning ==
  /\ phase = "normalized"
  /\ Has(input.e, "$id") /\ Has(input.e, "examples") /\ Has(input.e, "deprecated")
  /\ Len(SelectSeq(out.warnings, IsKeywordWarning)) = 2
  /\ ~Has(out.schema, "$id") /\ ~Has(out.schema, "examples")
  /\ ~Has(out.schema, "deprecated")

(***************************************************************************)
(* C28.  validateNormalizedSchema finds nothing in what normalizeSchema    *)
(* returns: applied to the output schema, or to any node nested in it, it  *)
(* returns the empty list, whatever the input was.                         *)
(***************************************************************************)
PassesValidation(schema) ==
  \A node \in AllNodes(schema) : validateNormalizedSchema(<<>>, Lit(node)) = <<>>

C28_OutputPassesValidation ==
  /\ Returned => PassesValidation(out.schema)
  /\ phase = "renormalized" => PassesValidation(out2.schema)

\* The input declares a required key that none of its properties has, and
\* validateNormalizedSchema reports it on the input; the output keeps a
\* required list and passes.
C28_UnknownRequiredKeyRemoved ==
  /\ phase = "normalized"
  /\ input.k = "lit"
  /\ isPlainObject(Get(input.e, "properties"))
  /\ IsArray(Get(input.e, "required"))
  /\ validateRequired(heap, input.e) # <<>>
  /\ IsArray(Get(out.schema, "required"))
  /\ validateNormalizedSchema(<<>>, Lit(out.schema)) = <<>>

\* The input has a type that is no name of the vocabulary, and
\* validateNormalizedSchema reports it on the input; the output has a type
\* and passes.
C28_UnknownTypeReplaced ==
  /\ phase = "normalized"
  /\ input.k = "lit"
  /\ validateType(Get(input.e, "type")) # <<>>
  /\ Has(out.schema, "type")
  /\ validateNormalizedSchema(<<>>, Lit(out.schema)) = <<>>

(***************************************************************************)
(* C29.  A request with tool_call_responses is merged only with the        *)
(* pending call it answers: the call handed out is one the responses name; *)
(* an entry is removed when it is handed out, so no second request gets    *)
(* it; and when no pending call is named by the responses, the reply is    *)
(* the error TOOL_CALL_NOT_FOUND and the pendingCalls map is left as it    *)
(* was.                                                                    *)
(***************************************************************************)
AnsweredResponses == reply.code # "" \/ Has(reply.request, "tool_call_responses")

Merged == reply.code = "" /\ Has(reply.request, "tool_call_responses")

\* The ids of the calls the responses of the last request name.
Answered ==
  LET responses == Get(reply.request, "tool_call_responses")
  IN IF IsArray(responses)
       THEN {Get(responses.a[k].e, "tool_call_id").n : k \in 1..Len(responses.a)}
       ELSE {}

PendingIds(pending) == {pending[k][1] : k \in 1..Len(pending)}

HandedOutOnce == Merged => reply.id \notin PendingIds(pendingCalls)

NotFoundLeavesMap ==
  reply.code = "TOOL_CALL_NOT_FOUND" => pendingCalls = reply.before

C29_MergedWithAnsweredCall ==
  /\ Merged => reply.id \in Answered
  /\ HandedOutOnce
  /\ (AnsweredResponses /\ Answered \cap PendingIds(reply.before) = {})
       => reply.code = "TOOL_CALL_NOT_FOUND"
  /\ NotFoundLeavesMap

\* The requests A and B are pending, in this order, and the responses name
\* the call of B: they are merged with the request of A, and B stays.
C29_MergedWithFirstPending ==
  /\ Merged
  /\ Len(reply.before) = 2
  /\ Get(reply.before[1][2], "contents") = Str("A")
  /\ Get(reply.before[2][2], "contents") = Str("B")
  /\ Answered = {reply.before[2][1]}
  /\ reply.id = reply.before[1][1]
  /\ Get(reply.body, "contents") = Str("A")
  /\ Get(reply.body, "tool_call_responses") = Get(reply.request, "tool_call_responses")
  /\ PendingIds(pendingCalls) = Answered

(***************************************************************************)
(* C30.  The pendingCalls map does not grow without bound: while requests  *)
(* with `tools` arrive and no request with tool_call_responses follows,    *)
(* entries are evicted, so that the map never holds one entry for every    *)
(* request the proxy has received, however many those are.                 *)
(***************************************************************************)
C30_PendingCallsEvicted == Len(pendingCalls) < MaxRequests

\* Every request received carried `tools`, none was answered, and the map
\* holds one entry for each of them.
C30_EveryCallKept ==
  /\ received = MaxRequests
  /\ inflight = {}
  /\ Len(pendingCalls) = received
  /\ \A k \in 1..Len(pendingCalls) : Has(pendingCalls[k][2], "tools")
  /\ ~Has(reply.request, "tool_call_responses")

====
